---- MODULE Spec2Model ----
(***************************************************************************)
(* MealShare AI: the sheet reconciliation parser (services/sheetService    *)
(* parseCSV), the App's balance computation and the App's sync with the    *)
(* sheet (handleSyncSheet), as state machines.                             *)
(*                                                                         *)
(* Numbers are fixed-point with two decimals: the integer n stands for     *)
(* n / 100, so the cell "59" parses to 5900 and "1.5" to 150.  A CSV text  *)
(* is the list of its lines, each line the list of raw cells the           *)
(* quote-aware split yields (never empty: an empty line is one empty       *)
(* cell).  Rows and columns are numbered from 0 as in the source.          *)
(***************************************************************************)
EXTENDS Integers, Sequences, FiniteSets, TLC

VARIABLES
  csvText,             \* parseCSV's argument, as lines of raw cells
  pc,                  \* where parseCSV is: start, pass1, pass2, fallback, done
  r,                   \* the row index of the running pass
  extractedRate,       \* <<>> when undefined, <<v>> when set
  mealCounts,          \* Map<string, number>: lowercased name -> grid total
  gridHeaderRowIndex,  \* -1 until a grid header is seen
  columnToNameMap,     \* Map<number, string> in insertion order
  result,              \* <<>> until parseCSV returns, then <<SheetResult>>
  parses,              \* the calls of parseCSV before this one: text, result
  people,              \* App state: Person[]
  sheetMealRate,       \* App state: <<>> for null, <<v>> for a number
  balances,            \* what the balances useMemo last computed
  isSyncing,           \* App state
  lastSheetUrl,        \* App state: "" until a sync has started
  syncPc,              \* where each call of handleSyncSheet is
  sheetData,           \* per call: <<>>, then <<what fetchSheetData gave>>
  alert,               \* <<>>, then <<the message of the last alert>>
  userDoc,             \* server: the stored User document
  jobs,                \* server: SchedulerService.jobs, job type -> <<task>>
  tasks,               \* server: the cron tasks scheduled and not stopped
  startCalls,          \* server: the start...Scheduler calls at their await
  res,                 \* server: <<>>, or <<the response just sent>>
  members,             \* server: the Member documents of the user
  nextMemberId,        \* server: the _id the next new Member gets
  memberCalls,         \* server: the member requests at their last await
  syncRuns,            \* server: the runs of runSyncTask
  clock,               \* server: what new Date() gives next
  notifications,       \* server: the reminders of the batch
  batchBy,             \* server: "route" or "task", who processes the batch
  batchPc,             \* server: where the processing of the batch is
  position,            \* server: how many reminders the loop is done with
  results,             \* server: the sent and failed counters
  counted              \* server: per reminder, how often it was counted

parserVars == <<csvText, pc, r, extractedRate, mealCounts, gridHeaderRowIndex,
                columnToNameMap, result, parses>>
syncVars == <<isSyncing, lastSheetUrl, syncPc, sheetData, alert>>
appVars == <<people, sheetMealRate, balances, isSyncing, lastSheetUrl, syncPc,
             sheetData, alert>>
schedulerVars == <<userDoc, jobs, tasks, startCalls>>
memberVars == <<members, nextMemberId, memberCalls>>
taskVars == <<syncRuns, clock>>
batchVars == <<notifications, batchBy, batchPc, position, results, counted>>
serverVars == <<schedulerVars, res, memberVars, taskVars, batchVars>>
vars == <<csvText, pc, r, extractedRate, mealCounts, gridHeaderRowIndex,
          columnToNameMap, result, parses, people, sheetMealRate, balances,
          isSyncing, lastSheetUrl, syncPc, sheetData, alert, userDoc, jobs,
          tasks, startCalls, res, members, nextMemberId, memberCalls,
          syncRuns, clock, notifications, batchBy, batchPc, position,
          results, counted>>

(***************************************************************************)
(* Bounds of the model.                                                    *)
(***************************************************************************)
MaxRows == 4

MaxPeople == 2

\* calls of handleSyncSheet that are under way at once
MaxCalls == 2

\* calls of parseCSV one after another
MaxParses == 3

\* start...Scheduler calls that are at their await at once
MaxStarts == 2

\* cron tasks that are live at once
MaxTasks == 3

\* Member documents ever created
MaxMembers == 2

\* member requests that are at their last await at once
MaxRequests == 2

\* runs of runSyncTask that are under way at once
MaxRuns == 2

\* values of new Date() the sync tasks store
MaxClock == 3

\* reminders in a batch
MaxReminders == 3

(***************************************************************************)
(* Strings.  The cells the model uses and what the JavaScript string       *)
(* operations make of them.                                                *)
(***************************************************************************)

\* c.replace(/^"|"$/g, '').trim(): one leading and one trailing quote are
\* removed, then surrounding white space.
Clean(raw) ==
  CASE raw = "\"A\"" -> "A"
    [] raw = " B " -> "B"
    [] raw = "\"Cost\"" -> "Cost"
    [] raw = " " -> ""
    [] raw = "\"name, full\"" -> "name, full"
    [] raw = "\"name" -> "name"
    [] raw = " full\"" -> "full"
    [] OTHER -> raw

\* String.prototype.toLowerCase
toLowerCase(c) ==
  CASE c = "Date" -> "date"
    [] c = "DATE" -> "date"
    [] c = "Total" -> "total"
    [] c = "TOTAL" -> "total"
    [] c = "Grand Total" -> "grand total"
    [] c = "Tot / day" -> "tot / day"
    [] c = "Joma" -> "joma"
    [] c = "Check" -> "check"
    [] c = "CHECK" -> "check"
    [] c = "Mil rate" -> "mil rate"
    [] c = "Meal rate" -> "meal rate"
    [] c = "Rate" -> "rate"
    [] c = "RATE" -> "rate"
    [] c = "Meal Details" -> "meal details"
    [] c = "Name" -> "name"
    [] c = "Member" -> "member"
    [] c = "Meals" -> "meals"
    [] c = "Paid" -> "paid"
    [] c = "Count" -> "count"
    [] c = "Cost" -> "cost"
    [] c = "Total Cost" -> "total cost"
    [] c = "Available Balance" -> "available balance"
    [] c = "Balance" -> "balance"
    [] c = "A" -> "a"
    [] c = "B" -> "b"
    [] c = "C" -> "c"
    [] c = "A B" -> "a b"
    [] OTHER -> c

\* The proper substrings of a lowercased cell among the words the parser
\* searches for.
ProperSubstrings(c) ==
  CASE c = "grand total" -> {"total"}
    [] c = "total cost" -> {"total", "cost"}
    [] c = "available balance" -> {"available", "balance"}
    [] c = "meal details" -> {"meal"}
    [] c = "meal rate" -> {"meal", "rate"}
    [] c = "mil rate" -> {"rate"}
    [] c = "meals" -> {"meal"}
    [] c = "name, full" -> {"name", "full"}
    [] OTHER -> {}

\* String.prototype.includes
includes(c, s) == s = c \/ s \in ProperSubstrings(c)

\* String.prototype.trim
trim(c) ==
  CASE c = " B " -> "B"
    [] c = "b " -> "b"
    [] c = " " -> ""
    [] OTHER -> c

\* name.replace(/\s/g, '')
RemoveSpaces(c) ==
  CASE c = "a b" -> "ab"
    [] c = "grand total" -> "grandtotal"
    [] c = "mil rate" -> "milrate"
    [] c = "total cost" -> "totalcost"
    [] OTHER -> c

(***************************************************************************)
(* Numbers.                                                                *)
(***************************************************************************)
NaN == [nan |-> TRUE, v |-> 0]

Num(n) == [nan |-> FALSE, v |-> n]

\* parseFloat: the longest numeric prefix, NaN when there is none.
parseFloat(c) ==
  CASE c = "0" -> Num(0)
    [] c = "1" -> Num(100)
    [] c = "2" -> Num(200)
    [] c = "3" -> Num(300)
    [] c = "5" -> Num(500)
    [] c = "7" -> Num(700)
    [] c = "-5" -> Num(-500)
    [] c = "1.5" -> Num(150)
    [] c = "20" -> Num(2000)
    [] c = "-30" -> Num(-3000)
    [] c = "50" -> Num(5000)
    [] c = "59" -> Num(5900)
    [] c = "59tk" -> Num(5900)
    [] c = "100" -> Num(10000)
    [] c = "150" -> Num(15000)
    [] c = "384" -> Num(38400)
    [] c = "-262" -> Num(-26200)
    [] OTHER -> NaN

\* parseFloat(c) || 0
parseFloatOrZero(c) == IF parseFloat(c).nan THEN 0 ELSE parseFloat(c).v

Abs(n) == IF n < 0 THEN -n ELSE n

\* parseFloat((a / b).toFixed(2)) for b > 0: the quotient rounded to two
\* decimals, halves away from zero.
DivToFixed2(a, b) ==
  LET q == (2 * Abs(a) * 100 + b) \div (2 * b)
  IN  IF a < 0 THEN -q ELSE q

(***************************************************************************)
(* Arrays and maps.                                                        *)
(***************************************************************************)
\* arr[i] with 0-based i
At(arr, i) == arr[i + 1]

\* Array.prototype.findIndex, given for every element whether the callback
\* holds of it: the least 0-based index where it does, -1 when there is none.
findIndex(holds) ==
  LET hits == {i \in 0..(Len(holds) - 1) : At(holds, i)}
  IN  IF hits = {} THEN -1 ELSE CHOOSE i \in hits : \A j \in hits : i <= j

Max(S) == CHOOSE x \in S : \A y \in S : y <= x

\* Map.prototype.set on an insertion-ordered map kept as a sequence of
\* entries: an existing key keeps its place, a new key goes last.
MapSet(m, key, value) ==
  IF \E k \in 1..Len(m) : m[k].col = key
    THEN [k \in 1..Len(m) |->
            IF m[k].col = key THEN [col |-> key, name |-> value] ELSE m[k]]
    ELSE Append(m, [col |-> key, name |-> value])

\* lines[r].split(...).map(c => c.replace(/^"|"$/g, '').trim())
Cells(line) == [k \in 1..Len(line) |-> Clean(line[k])]

\* cells.map(c => c.toLowerCase())
LowerCells(cells) == [k \in 1..Len(cells) |-> toLowerCase(cells[k])]

(***************************************************************************)
(* parseCSV, pass 1: the global scan for the rate and the meal grid.       *)
(***************************************************************************)
EmptyMap == [x \in {} |-> 0]

\* Map.prototype.set on mealCounts (only has and get are used on it)
CountsSet(counts, key, value) ==
  [x \in (DOMAIN counts) \cup {key} |-> IF x = key THEN value ELSE counts[x]]

IsRateLabel(c) == c = "mil rate" \/ c = "meal rate" \/ c = "rate"

\* FindMilRate taking any number, positive or not
FindMilRateAnyNumber(cells, rate) ==
  LET lowerCells == LowerCells(cells)
      rateIdx == findIndex([k \in 1..Len(lowerCells) |-> IsRateLabel(lowerCells[k])])
  IN  IF rateIdx # -1 /\ rateIdx + 1 < Len(cells)
        THEN LET val == parseFloat(At(cells, rateIdx + 1))
             IN  IF ~val.nan THEN <<val.v>> ELSE rate
        ELSE rate

\* A. Find Mil Rate: the value extractedRate has after the row
FindMilRate(cells, rate) ==
  LET lowerCells == LowerCells(cells)
      rateIdx == findIndex([k \in 1..Len(lowerCells) |-> IsRateLabel(lowerCells[k])])
  IN  IF rateIdx # -1 /\ rateIdx + 1 < Len(cells)
        THEN LET val == parseFloat(At(cells, rateIdx + 1))
             IN  IF ~val.nan /\ val.v > 0 THEN <<val.v>> ELSE rate
        ELSE rate

\* the test inside cells.forEach of B
IsGridName(cell, idx) ==
  /\ idx > 0
  /\ cell # ""
  /\ toLowerCase(cell) # "joma"
  /\ toLowerCase(cell) # "total"
  /\ toLowerCase(cell) # "tot / day"

RECURSIVE SetGridNames(_, _, _)
\* cells.forEach of B from index idx on: columnToNameMap.set(idx, cell)
SetGridNames(cells, idx, map) ==
  IF idx >= Len(cells) THEN map
  ELSE SetGridNames(cells, idx + 1,
         IF IsGridName(At(cells, idx), idx)
           THEN MapSet(map, idx, At(cells, idx)) ELSE map)

\* validNames after cells.forEach of B
ValidNames(cells) ==
  Cardinality({idx \in 0..(Len(cells) - 1) : IsGridName(At(cells, idx), idx)})

\* B. Identify Meal Grid Header: columnToNameMap after the row
GridHeaderMap(cells, map) ==
  IF toLowerCase(cells[1]) = "date" THEN SetGridNames(cells, 0, map) ELSE map

\* B. Identify Meal Grid Header: gridHeaderRowIndex after row number row
GridHeaderIndex(cells, row, hdr) ==
  IF toLowerCase(cells[1]) = "date" /\ ValidNames(cells) > 1 THEN row ELSE hdr

RECURSIVE ForEachTotalOverwriting(_, _, _, _)
\* ForEachTotal without the mealCounts.has test: the last Total row wins
ForEachTotalOverwriting(map, k, cells, counts) ==
  IF k > Len(map) THEN counts
  ELSE LET colIdx == map[k].col
           key == toLowerCase(map[k].name)
       IN  ForEachTotalOverwriting(map, k + 1, cells,
             IF colIdx < Len(cells) /\ ~parseFloat(At(cells, colIdx)).nan
               THEN CountsSet(counts, key, parseFloat(At(cells, colIdx)).v)
               ELSE counts)

RECURSIVE ForEachTotal(_, _, _, _)
\* columnToNameMap.forEach of C from the k-th entry on
ForEachTotal(map, k, cells, counts) ==
  IF k > Len(map) THEN counts
  ELSE LET name == map[k].name
           colIdx == map[k].col
           key == toLowerCase(name)
       IN  ForEachTotal(map, k + 1, cells,
             IF /\ colIdx < Len(cells)
                /\ ~parseFloat(At(cells, colIdx)).nan
                /\ key \notin DOMAIN counts
               THEN CountsSet(counts, key, parseFloat(At(cells, colIdx)).v)
               ELSE counts)

\* C. Capture Totals from Grid: mealCounts after row number row
CaptureTotals(cells, row, hdr, map, counts) ==
  IF hdr # -1 /\ row > hdr /\ toLowerCase(cells[1]) = "total"
    THEN ForEachTotal(map, 1, cells, counts)
    ELSE counts

(***************************************************************************)
(* parseCSV, pass 2: the summary table.                                    *)
(***************************************************************************)
IsNameHeader(c) == includes(c, "meal details") \/ c = "name"

NameIdx(lowerCells) ==
  findIndex([k \in 1..Len(lowerCells) |-> IsNameHeader(lowerCells[k])])

\* CostIdx taking a cost column on either side of the name column
CostIdxAnywhere(lowerCells, nameIdx) ==
  findIndex([k \in 1..Len(lowerCells) |->
               lowerCells[k] = "cost" \/ includes(lowerCells[k], "total cost")])

CostIdx(lowerCells, nameIdx) ==
  findIndex([k \in 1..Len(lowerCells) |->
               /\ k - 1 > nameIdx
               /\ \/ lowerCells[k] = "cost"
                  \/ includes(lowerCells[k], "total cost")])

BalanceIdx(lowerCells, nameIdx) ==
  findIndex([k \in 1..Len(lowerCells) |->
               /\ k - 1 > nameIdx
               /\ \/ includes(lowerCells[k], "available")
                  \/ includes(lowerCells[k], "balance")])

\* BreaksTable without the stop at an empty name
BreaksTableEmptyNameKept(dataRow, nameIdx, costIdx, balanceIdx) ==
  \/ Len(dataRow) <= Max({nameIdx, costIdx, balanceIdx})
  \/ includes(toLowerCase(At(dataRow, nameIdx)), "total")
  \/ toLowerCase(At(dataRow, nameIdx)) = "check"
  \/ (At(dataRow, costIdx) = "" /\ At(dataRow, balanceIdx) = "")

\* BreaksTable without the stop at a row with neither cost nor balance
BreaksTableEmptyRowKept(dataRow, nameIdx, costIdx, balanceIdx) ==
  \/ Len(dataRow) <= Max({nameIdx, costIdx, balanceIdx})
  \/ At(dataRow, nameIdx) = ""
  \/ includes(toLowerCase(At(dataRow, nameIdx)), "total")
  \/ toLowerCase(At(dataRow, nameIdx)) = "check"

\* the break conditions of the data loop
BreaksTable(dataRow, nameIdx, costIdx, balanceIdx) ==
  \/ Len(dataRow) <= Max({nameIdx, costIdx, balanceIdx})
  \/ At(dataRow, nameIdx) = ""
  \/ includes(toLowerCase(At(dataRow, nameIdx)), "total")
  \/ toLowerCase(At(dataRow, nameIdx)) = "check"
  \/ (At(dataRow, costIdx) = "" /\ At(dataRow, balanceIdx) = "")

\* DetermineMeals preferring the rate to the grid total
DetermineMealsRateFirst(name, cost, counts, rate) ==
  IF rate # <<>> /\ rate[1] > 0
    THEN DivToFixed2(cost, rate[1])
    ELSE IF toLowerCase(name) \in DOMAIN counts
           THEN counts[toLowerCase(name)]
           ELSE 0

\* DETERMINE MEALS
DetermineMeals(name, cost, counts, rate) ==
  IF toLowerCase(name) \in DOMAIN counts
    THEN counts[toLowerCase(name)]
    ELSE IF rate # <<>> /\ rate[1] > 0
           THEN DivToFixed2(cost, rate[1])
           ELSE 0

\* SummaryPerson with the sheet's cost as the contribution
SummaryPersonCostOnly(i, dataRow, nameIdx, costIdx, balanceIdx, counts, rate) ==
  LET name == At(dataRow, nameIdx)
      cost == parseFloatOrZero(At(dataRow, costIdx))
      balance == parseFloatOrZero(At(dataRow, balanceIdx))
  IN  [id |-> <<"sheet-summary", i>>,
       name |-> name,
       email |-> <<RemoveSpaces(toLowerCase(name)), "@example.com">>,
       meals |-> DetermineMeals(name, cost, counts, rate),
       contribution |-> cost,
       customBalance |-> <<balance>>]

\* the record people.push adds for data row i
SummaryPerson(i, dataRow, nameIdx, costIdx, balanceIdx, counts, rate) ==
  LET name == At(dataRow, nameIdx)
      cost == parseFloatOrZero(At(dataRow, costIdx))
      balance == parseFloatOrZero(At(dataRow, balanceIdx))
  IN  [id |-> <<"sheet-summary", i>>,
       name |-> name,
       email |-> <<RemoveSpaces(toLowerCase(name)), "@example.com">>,
       meals |-> DetermineMeals(name, cost, counts, rate),
       contribution |-> cost + balance,
       customBalance |-> <<balance>>]

RECURSIVE SummaryRows(_, _, _, _, _, _, _)
\* the data loop from row i on
SummaryRows(lines, i, nameIdx, costIdx, balanceIdx, counts, rate) ==
  IF i >= Len(lines) THEN <<>>
  ELSE LET dataRow == Cells(At(lines, i))
       IN  IF BreaksTable(dataRow, nameIdx, costIdx, balanceIdx) THEN <<>>
           ELSE <<SummaryPerson(i, dataRow, nameIdx, costIdx, balanceIdx,
                                counts, rate)>>
                \o SummaryRows(lines, i + 1, nameIdx, costIdx, balanceIdx,
                               counts, rate)

\* the people the body of pass 2 collects for header candidate row
SummaryTable(lines, row, counts, rate) ==
  LET lowerCells == LowerCells(Cells(At(lines, row)))
      nameIdx == NameIdx(lowerCells)
      costIdx == CostIdx(lowerCells, nameIdx)
      balanceIdx == BalanceIdx(lowerCells, nameIdx)
  IN  IF nameIdx # -1 /\ costIdx # -1 /\ balanceIdx # -1
        THEN SummaryRows(lines, row + 1, nameIdx, costIdx, balanceIdx,
                         counts, rate)
        ELSE <<>>

\* SummaryResult leaving the rate out
SummaryResultNoRate(ppl, rate) ==
  [people |-> ppl, hasContribution |-> TRUE, extractedRate |-> <<>>]

\* return { people, hasContribution: true, extractedRate }
SummaryResult(ppl, rate) ==
  [people |-> ppl, hasContribution |-> TRUE, extractedRate |-> rate]

(***************************************************************************)
(* parseCSV, the fallback simple list.                                     *)
(***************************************************************************)
\* What a plain split(',') makes of one cell of the quote-aware split: a
\* quoted cell with a comma inside falls apart.
PlainSplitCell(raw) ==
  CASE raw = "\"name, full\"" -> <<"\"name", " full\"">>
    [] OTHER -> <<raw>>

RECURSIVE PlainSplit(_)
PlainSplit(line) ==
  IF line = <<>> THEN <<>>
  ELSE PlainSplitCell(Head(line)) \o PlainSplit(Tail(line))

\* lines[0].toLowerCase().split(',').map(h => h.replace(/^"|"$/g, '').trim())
Headers(line) ==
  LET split == PlainSplit(LowerCells(line))
  IN  [k \in 1..Len(split) |-> Clean(split[k])]

SimpleNameIdx(headers) ==
  findIndex([k \in 1..Len(headers) |->
               includes(headers[k], "name") \/ includes(headers[k], "member")])

SimpleMealIdx(headers) ==
  findIndex([k \in 1..Len(headers) |->
               includes(headers[k], "meal") \/ includes(headers[k], "count")])

SimplePaidIdx(headers) ==
  findIndex([k \in 1..Len(headers) |->
               includes(headers[k], "paid") \/ includes(headers[k], "amount")])

\* PartOrZero counting an unparseable or missing cell as 1
PartOrOne(parts, idx) ==
  IF idx < Len(parts) /\ ~parseFloat(At(parts, idx)).nan
    THEN parseFloat(At(parts, idx)).v ELSE 100

\* parseFloat(parts[idx]) || 0, parts[idx] being undefined past the end
PartOrZero(parts, idx) ==
  IF idx < Len(parts) THEN parseFloatOrZero(At(parts, idx)) ELSE 0

RECURSIVE SimpleRows(_, _, _, _, _)
\* the loop of the fallback from row i on
SimpleRows(lines, i, simpleNameIdx, simpleMealIdx, simplePaidIdx) ==
  IF i >= Len(lines) THEN <<>>
  ELSE LET parts == Cells(At(lines, i))
           rest == SimpleRows(lines, i + 1, simpleNameIdx, simpleMealIdx,
                              simplePaidIdx)
       IN  IF Len(parts) <= simpleNameIdx THEN rest
           ELSE IF At(parts, simpleNameIdx) = "" THEN rest
           ELSE <<[id |-> <<"sheet-list", i>>,
                   name |-> At(parts, simpleNameIdx),
                   email |-> <<At(parts, simpleNameIdx), "@example.com">>,
                   meals |-> PartOrZero(parts, simpleMealIdx),
                   contribution |->
                     IF simplePaidIdx # -1
                       THEN PartOrZero(parts, simplePaidIdx) ELSE 0,
                   customBalance |-> <<>>]>> \o rest

\* the two returns after pass 2
SimpleList(lines) ==
  LET headers == Headers(At(lines, 0))
      simpleNameIdx == SimpleNameIdx(headers)
      simpleMealIdx == SimpleMealIdx(headers)
      simplePaidIdx == SimplePaidIdx(headers)
  IN  IF simpleNameIdx # -1 /\ simpleMealIdx # -1
        THEN [people |-> SimpleRows(lines, 1, simpleNameIdx, simpleMealIdx,
                                    simplePaidIdx),
              hasContribution |-> simplePaidIdx # -1,
              extractedRate |-> <<>>]
        ELSE [people |-> <<>>, hasContribution |-> FALSE,
              extractedRate |-> <<>>]

(***************************************************************************)
(* App: the balances useMemo.  Quotients and products of two-decimal       *)
(* numbers are rounded to two decimals.                                    *)
(***************************************************************************)
\* a / b of two-decimal numbers, b > 0
Quotient(a, b) == DivToFixed2(a, b)

\* a * b of two-decimal numbers
Product(a, b) ==
  LET q == (2 * Abs(a * b) + 100) \div 200
  IN  IF a * b < 0 THEN -q ELSE q

RECURSIVE SumOf(_, _)
\* people.reduce((sum, p) => sum + p[field], 0)
SumOf(ppl, field) ==
  IF ppl = <<>> THEN 0 ELSE Head(ppl)[field] + SumOf(Tail(ppl), field)

\* MealRate with the calculated rate first
MealRateCalculatedFirst(ppl, sheetRate) ==
  LET totalC == SumOf(ppl, "contribution")
      totalM == SumOf(ppl, "meals")
  IN  IF totalM > 0 THEN Quotient(totalC, totalM)
      ELSE IF sheetRate # <<>> /\ sheetRate[1] > 0 THEN sheetRate[1] ELSE 0

\* Priority: 1. Rate from Sheet, 2. Calculated Rate
MealRate(ppl, sheetRate) ==
  LET totalC == SumOf(ppl, "contribution")
      totalM == SumOf(ppl, "meals")
  IN  IF sheetRate # <<>> /\ sheetRate[1] > 0
        THEN sheetRate[1]
        ELSE IF totalM > 0 THEN Quotient(totalC, totalM) ELSE 0

\* BalanceOf testing customBalance for truthiness instead of !== undefined
BalanceOfTruthy(person, cost) ==
  IF person.customBalance # <<>> /\ person.customBalance[1] # 0
    THEN person.customBalance[1]
    ELSE person.contribution - cost

\* const balance = person.customBalance !== undefined ? ... : ...
BalanceOf(person, cost) ==
  IF person.customBalance # <<>>
    THEN person.customBalance[1]
    ELSE person.contribution - cost

\* StatusOf with the two bounds counted in
StatusOfInclusive(balance) ==
  IF balance <= -100 THEN "OWES"
  ELSE IF balance >= 100 THEN "OWED"
  ELSE "SETTLED"

\* let status = 'SETTLED'; if (balance > 1) ...; if (balance < -1) ...
StatusOf(balance) ==
  IF balance < -100 THEN "OWES"
  ELSE IF balance > 100 THEN "OWED"
  ELSE "SETTLED"

\* the callback of people.map
BalanceRecord(person, rate) ==
  LET cost == Product(person.meals, rate)
      balance == BalanceOf(person, cost)
  IN  [personId |-> person.id,
       name |-> person.name,
       meals |-> person.meals,
       contribution |-> person.contribution,
       cost |-> cost,
       balance |-> balance,
       status |-> StatusOf(balance)]

RECURSIVE InsertByBalance(_, _)
\* rec put behind every record of the sorted list whose balance is not greater
InsertByBalance(sorted, rec) ==
  IF sorted = <<>> THEN <<rec>>
  ELSE IF Head(sorted).balance <= rec.balance
         THEN <<Head(sorted)>> \o InsertByBalance(Tail(sorted), rec)
         ELSE <<rec>> \o sorted

\* SortByBalance leaving the records in the order of the people
SortByBalanceNot(recs) == recs

RECURSIVE SortByBalance(_)
\* .sort((a, b) => a.balance - b.balance), a stable sort
SortByBalance(recs) ==
  IF recs = <<>> THEN <<>>
  ELSE InsertByBalance(SortByBalance(SubSeq(recs, 1, Len(recs) - 1)),
                       recs[Len(recs)])

\* calculatedBalances
CalculatedBalances(ppl, sheetRate) ==
  SortByBalance([k \in 1..Len(ppl) |->
                   BalanceRecord(ppl[k], MealRate(ppl, sheetRate))])

(***************************************************************************)
(* The CSV texts the parser is run on.                                     *)
(***************************************************************************)
\* rows about the rate
RatePool ==
  { <<"Mil rate", "59">>,
    <<"Rate", "0">>,
    <<"Rate", "abc", "Mil rate", "59">>,
    <<"A", "Meal rate", "50">>,
    <<"Mil rate">> }

\* rows about the rate under the three layouts
LayoutPool ==
  { <<"Mil rate", "59">>,
    <<"x", "RATE", "-5">>,
    <<"Name", "Cost", "Balance">>,
    <<"Name", "Meals", "Paid">>,
    <<"A", "150", "-30">> }

\* rows about the Total rows of the meal grid
TotalPool ==
  { <<"Date", "A", "B", "Tot / day">>,
    <<"Total", "3", "2", "5">>,
    <<"TOTAL", "x", "7", "1.5", "-5">>,
    <<"1", "1", "0", "1">>,
    <<"">> }

\* rows about the header of the meal grid
GridPool ==
  { <<"Date", "A", "B", "Tot / day">>,
    <<"DATE", "Joma", "C">>,
    <<"Date", "b", "A", "C", "B">>,
    <<"Total", "3", "2", "5">>,
    <<"TOTAL", "x", "7", "1.5", "-5">> }

\* rows about the summary table, the grid and the rate together
SummaryPool ==
  { <<"Date", "A", "B">>,
    <<"Total", "3", "2">>,
    <<"Meal Details", "Cost", "Available Balance">>,
    <<"Name", "Balance", "Total Cost", "Mil rate", "59">>,
    <<"\"A\"", "150", "-30">>,
    <<"C", "100", "20">> }

\* rows about the header of the summary table
HeaderPool ==
  { <<"Meal Details", "Cost", "Available Balance">>,
    <<"Name", "Balance", "Total Cost", "Mil rate", "59">>,
    <<"Cost", "Name", "Balance">>,
    <<"\"A\"", "150", "-30">>,
    <<"Total", "3", "2">> }

\* rows about the data rows of the summary table
TablePool ==
  { <<"Meal Details", "Cost", "Available Balance">>,
    <<"A", "150", "-30">>,
    <<" B ", "abc", "20">>,
    <<"a", "", "5">>,
    <<"C", "", "">>,
    <<"Grand Total", "250", "-5">> }

\* rows about where the summary table ends
EndPool ==
  { <<"Meal Details", "Cost", "Available Balance">>,
    <<"A", "150", "-30">>,
    <<"CHECK", "1", "1">>,
    <<" ", "1", "1">>,
    <<"Total", "3", "2">>,
    <<"B", "7">> }

\* rows about the simple list
SimplePool ==
  { <<"Name", "Meals", "Paid">>,
    <<"Count", "Member">>,
    <<"\"name, full\"", "Meals", "Paid">>,
    <<"A", "3", "100">>,
    <<"", "3", "100">>,
    <<"B", "-5", "abc">>,
    <<"C">> }

\* the families of rows a text is made of
RowPools ==
  {RatePool, LayoutPool, TotalPool, GridPool, SummaryPool, HeaderPool,
   TablePool, EndPool, SimplePool}

\* the texts of n lines over one family
CsvTexts(n) == UNION {[1..n -> pool] : pool \in RowPools}

\* a sheet with the meal grid, the summary table and the rate row
SheetText ==
  <<(<<"Date", "A", "B", "Tot / day">>),
    (<<"Total", "3", "2", "5">>),
    (<<"">>),
    (<<"Meal Details", "Cost", "Available Balance">>),
    (<<"A", "150", "-30">>),
    (<<"B", "100", "20">>),
    (<<"Mil rate", "50">>)>>

(***************************************************************************)
(* parseCSV as a state machine.                                            *)
(***************************************************************************)
NoPeople == <<>>

ParserInit ==
  /\ \/ \E n \in 1..MaxRows : csvText \in CsvTexts(n)
     \/ csvText = SheetText
  /\ pc = "start"
  /\ r = 0
  /\ extractedRate = <<>>
  /\ mealCounts = EmptyMap
  /\ gridHeaderRowIndex = -1
  /\ columnToNameMap = <<>>
  /\ result = <<>>
  /\ parses = <<>>

\* the server with a user as created, no job and no request
NewUser ==
  [notificationConfig |->
     [isEnabled |-> FALSE, autoSend |-> FALSE, emailEnabled |-> FALSE],
   autoSyncEnabled |-> FALSE,
   csvUrl |-> <<>>,
   syncedPeople |-> <<>>,
   sheetMealRate |-> <<>>,
   lastFetchTime |-> <<>>]

\* no job, no start call and no response
JobsIdle ==
  /\ jobs = [type \in {"notification", "sync"} |-> <<>>]
  /\ tasks = {}
  /\ startCalls = [c \in 1..MaxStarts |-> <<>>]
  /\ res = <<>>

\* no member and no member request
MembersIdle ==
  /\ members = {}
  /\ nextMemberId = 1
  /\ memberCalls = [c \in 1..MaxRequests |-> <<>>]

\* no run of runSyncTask
SyncTaskIdle ==
  /\ syncRuns = [c \in 1..MaxRuns |-> <<>>]
  /\ clock = 1

\* no batch of reminders
BatchIdle ==
  /\ notifications = <<>>
  /\ batchBy = "route"
  /\ batchPc = "idle"
  /\ position = 0
  /\ results = [sent |-> 0, failed |-> 0]
  /\ counted = <<>>

ServerIdle ==
  /\ userDoc = NewUser
  /\ JobsIdle
  /\ MembersIdle
  /\ SyncTaskIdle
  /\ BatchIdle

\* no call of handleSyncSheet yet
SyncIdle ==
  /\ isSyncing = FALSE
  /\ lastSheetUrl = ""
  /\ syncPc = [c \in 1..MaxCalls |-> "idle"]
  /\ sheetData = [c \in 1..MaxCalls |-> <<>>]
  /\ alert = <<>>

AppIdle ==
  /\ people = NoPeople
  /\ sheetMealRate = <<>>
  /\ balances = <<>>
  /\ SyncIdle

Init == ParserInit /\ AppIdle /\ ServerIdle

\* TooFew holding of every text
TooFewNever(lines) == Len(lines) < 1

\* lines.length < 2
TooFew(lines) == Len(lines) < 2

\* if (lines.length < 2) return { people: [], hasContribution: false }
TooFewLines ==
  /\ pc = "start"
  /\ TooFew(csvText)
  /\ result' = <<[people |-> <<>>, hasContribution |-> FALSE,
                  extractedRate |-> <<>>]>>
  /\ pc' = "done"
  /\ UNCHANGED <<csvText, r, extractedRate, mealCounts, gridHeaderRowIndex,
                 columnToNameMap>>
  /\ UNCHANGED <<appVars, parses, serverVars>>

EnterPass1 ==
  /\ pc = "start"
  /\ ~TooFew(csvText)
  /\ pc' = "pass1"
  /\ UNCHANGED <<csvText, r, extractedRate, mealCounts, gridHeaderRowIndex,
                 columnToNameMap, result>>
  /\ UNCHANGED <<appVars, parses, serverVars>>

\* one iteration of the loop of pass 1
Pass1Row ==
  /\ pc = "pass1"
  /\ LET cells == Cells(At(csvText, r))
         map == GridHeaderMap(cells, columnToNameMap)
         hdr == GridHeaderIndex(cells, r, gridHeaderRowIndex)
     IN  /\ extractedRate' = FindMilRate(cells, extractedRate)
         /\ columnToNameMap' = map
         /\ gridHeaderRowIndex' = hdr
         /\ mealCounts' = CaptureTotals(cells, r, hdr, map, mealCounts)
  /\ IF r + 1 < Len(csvText)
       THEN r' = r + 1 /\ pc' = "pass1"
       ELSE r' = 0 /\ pc' = "pass2"
  /\ UNCHANGED <<csvText, result>>
  /\ UNCHANGED <<appVars, parses, serverVars>>

\* one iteration of the loop of pass 2 that returns
Pass2Return ==
  /\ pc = "pass2"
  /\ SummaryTable(csvText, r, mealCounts, extractedRate) # <<>>
  /\ result' = <<SummaryResult(
                   SummaryTable(csvText, r, mealCounts, extractedRate),
                   extractedRate)>>
  /\ pc' = "done"
  /\ UNCHANGED <<csvText, r, extractedRate, mealCounts, gridHeaderRowIndex,
                 columnToNameMap>>
  /\ UNCHANGED <<appVars, parses, serverVars>>

\* one iteration of the loop of pass 2 that goes on to the next row
Pass2Next ==
  /\ pc = "pass2"
  /\ SummaryTable(csvText, r, mealCounts, extractedRate) = <<>>
  /\ IF r + 1 < Len(csvText)
       THEN r' = r + 1 /\ pc' = "pass2"
       ELSE r' = 0 /\ pc' = "fallback"
  /\ UNCHANGED <<csvText, extractedRate, mealCounts, gridHeaderRowIndex,
                 columnToNameMap, result>>
  /\ UNCHANGED <<appVars, parses, serverVars>>

\* Fallback: Simple List
Fallback ==
  /\ pc = "fallback"
  /\ result' = <<SimpleList(csvText)>>
  /\ pc' = "done"
  /\ UNCHANGED <<csvText, r, extractedRate, mealCounts, gridHeaderRowIndex,
                 columnToNameMap>>
  /\ UNCHANGED <<appVars, parses, serverVars>>

Next ==
  \/ TooFewLines
  \/ EnterPass1
  \/ Pass1Row
  \/ Pass2Return
  \/ Pass2Next
  \/ Fallback

Spec == Init /\ [][Next]_vars

(***************************************************************************)
(* parseCSV called again and again.                                        *)
(***************************************************************************)
\* the texts of the calls
CallTexts ==
  { <<(<<"Name", "Cost", "Balance">>), (<<"A", "150", "-30">>)>>,
    <<(<<"Date", "A", "B">>), (<<"Total", "3", "2">>),
      (<<"Mil rate", "50">>), (<<"Meal Details", "Cost", "Balance">>),
      (<<"B", "100", "20">>)>>,
    <<(<<"Name", "Meals", "Paid">>), (<<"A", "3", "100">>)>>,
    <<(<<"Mil rate", "59">>)>> }

\* DataHolders taking over what the call before left
DataHoldersLeft(left) == left

\* let extractedRate; const mealCounts = new Map(); let gridHeaderRowIndex =
\* -1; const columnToNameMap = new Map(): locals, made anew in every call
\* whatever the call before left in its own
DataHolders(left) ==
  [extractedRate |-> <<>>,
   mealCounts |-> EmptyMap,
   gridHeaderRowIndex |-> -1,
   columnToNameMap |-> <<>>]

InitCalls ==
  /\ csvText \in CallTexts
  /\ pc = "start"
  /\ r = 0
  /\ extractedRate = <<>>
  /\ mealCounts = EmptyMap
  /\ gridHeaderRowIndex = -1
  /\ columnToNameMap = <<>>
  /\ result = <<>>
  /\ parses = <<>>
  /\ AppIdle
  /\ ServerIdle

\* the next call of parseCSV, after the return of the one before
NextCall(text) ==
  /\ pc = "done"
  /\ Len(parses) + 1 < MaxParses
  /\ parses' = Append(parses, [text |-> csvText, result |-> result[1]])
  /\ csvText' = text
  /\ LET holders == DataHolders([extractedRate |-> extractedRate,
                                 mealCounts |-> mealCounts,
                                 gridHeaderRowIndex |-> gridHeaderRowIndex,
                                 columnToNameMap |-> columnToNameMap])
     IN  /\ extractedRate' = holders.extractedRate
         /\ mealCounts' = holders.mealCounts
         /\ gridHeaderRowIndex' = holders.gridHeaderRowIndex
         /\ columnToNameMap' = holders.columnToNameMap
  /\ r' = 0
  /\ result' = <<>>
  /\ pc' = "start"
  /\ UNCHANGED <<appVars, serverVars>>

NextCalls ==
  \/ TooFewLines
  \/ EnterPass1
  \/ Pass1Row
  \/ Pass2Return
  \/ Pass2Next
  \/ Fallback
  \/ \E text \in CallTexts : NextCall(text)

SpecCalls == InitCalls /\ [][NextCalls]_vars

(***************************************************************************)
(* The balances useMemo on its own: any people list, any stored rate.      *)
(***************************************************************************)
\* the Person values of a list's k-th place
Persons(k) ==
  [id : {<<"person", k>>},
   name : {"A"},
   email : {<<"a", "@example.com">>},
   meals : {0, 300, -500},
   contribution : {0, 12200},
   customBalance : {<<>>, <<0>>, <<-26200>>, <<100>>, <<-100>>, <<101>>}]

\* the people lists of n persons
PeopleLists(n) ==
  {ppl \in [1..n -> UNION {Persons(k) : k \in 1..n}] :
     \A k \in 1..n : ppl[k] \in Persons(k)}

\* sheetMealRate is null or a rate the parser extracted
SheetMealRates == {<<>>, <<5000>>, <<5900>>}

ParserIdle ==
  /\ csvText = <<>>
  /\ pc = "idle"
  /\ r = 0
  /\ extractedRate = <<>>
  /\ mealCounts = EmptyMap
  /\ gridHeaderRowIndex = -1
  /\ columnToNameMap = <<>>
  /\ result = <<>>
  /\ parses = <<>>

InitBalances ==
  /\ ParserIdle
  /\ \E n \in 0..MaxPeople : people \in PeopleLists(n)
  /\ sheetMealRate \in SheetMealRates
  /\ balances = <<>>
  /\ SyncIdle
  /\ ServerIdle

\* useMemo(() => ..., [people, sheetMealRate])
BalancesMemo ==
  /\ pc = "idle"
  /\ balances = <<>>
  /\ balances' = <<CalculatedBalances(people, sheetMealRate)>>
  /\ UNCHANGED <<people, sheetMealRate>>
  /\ UNCHANGED syncVars
  /\ UNCHANGED <<parserVars, serverVars>>

NextBalances == BalancesMemo

SpecBalances == InitBalances /\ [][NextBalances]_vars

(***************************************************************************)
(* parseCSV as a function of the text, as fetchSheetData calls it.         *)
(***************************************************************************)
RECURSIVE Pass1(_, _, _)
\* pass 1 from row on, st holding the four data holders
Pass1(lines, row, st) ==
  IF row >= Len(lines) THEN st
  ELSE LET cells == Cells(At(lines, row))
           map == GridHeaderMap(cells, st.columnToNameMap)
           hdr == GridHeaderIndex(cells, row, st.gridHeaderRowIndex)
       IN  Pass1(lines, row + 1,
                 [extractedRate |-> FindMilRate(cells, st.extractedRate),
                  columnToNameMap |-> map,
                  gridHeaderRowIndex |-> hdr,
                  mealCounts |->
                    CaptureTotals(cells, row, hdr, map, st.mealCounts)])

RECURSIVE Pass2(_, _, _, _)
\* pass 2 from row on, then the fallback
Pass2(lines, row, counts, rate) ==
  IF row >= Len(lines) THEN SimpleList(lines)
  ELSE IF SummaryTable(lines, row, counts, rate) # <<>>
         THEN SummaryResult(SummaryTable(lines, row, counts, rate), rate)
         ELSE Pass2(lines, row + 1, counts, rate)

parseCSV(lines) ==
  IF TooFew(lines)
    THEN [people |-> <<>>, hasContribution |-> FALSE, extractedRate |-> <<>>]
    ELSE LET st == Pass1(lines, 0,
                         [extractedRate |-> <<>>,
                          columnToNameMap |-> <<>>,
                          gridHeaderRowIndex |-> -1,
                          mealCounts |-> EmptyMap])
         IN  Pass2(lines, 0, st.mealCounts, st.extractedRate)

(***************************************************************************)
(* SchedulerService.parseCSV, the server's copy of the parser: pass 1 and  *)
(* pass 2 as in the frontend, each person with an empty email, and no      *)
(* simple list after pass 2.                                               *)
(***************************************************************************)
\* email: ''
EmptyEmail == <<"", "">>

\* the records the server's people.push adds
ServerPeople(ppl) ==
  [k \in 1..Len(ppl) |-> [ppl[k] EXCEPT !.email = EmptyEmail]]

RECURSIVE ServerPass2(_, _, _, _)
\* the server's pass 2 from row on, then return { people: [] }
ServerPass2(lines, row, counts, rate) ==
  IF row >= Len(lines) THEN [people |-> <<>>, extractedRate |-> <<>>]
  ELSE IF SummaryTable(lines, row, counts, rate) # <<>>
         THEN [people |->
                 ServerPeople(SummaryTable(lines, row, counts, rate)),
               extractedRate |-> rate]
         ELSE ServerPass2(lines, row + 1, counts, rate)

serverParseCSV(lines) ==
  IF Len(lines) < 2
    THEN [people |-> <<>>, extractedRate |-> <<>>]
    ELSE LET st == Pass1(lines, 0,
                         [extractedRate |-> <<>>,
                          columnToNameMap |-> <<>>,
                          gridHeaderRowIndex |-> -1,
                          mealCounts |-> EmptyMap])
         IN  ServerPass2(lines, 0, st.mealCounts, st.extractedRate)

(***************************************************************************)
(* App: handleSyncSheet.  A call awaits the fetch of the sheet, then the    *)
(* members of the database; calls started by handleRefresh run side by     *)
(* side with one another.                                                  *)
(***************************************************************************)
\* the sheets a URL may hold
SyncTexts ==
  { <<(<<"Name", "Cost", "Balance", "Mil rate", "59">>),
      (<<"A", "150", "-30">>),
      (<<" B ", "abc", "20">>)>>,
    <<(<<"Name", "Cost", "Balance">>), (<<"A", "150", "-30">>)>>,
    <<(<<"Date", "A", "B">>), (<<"Total", "3", "2">>),
      (<<"Mil rate", "50">>), (<<"Meal Details", "Cost", "Balance">>),
      (<<"B", "100", "20">>)>>,
    <<(<<"Name", "Meals", "Paid">>), (<<"A", "3", "100">>),
      (<<"Mil rate", "59">>)>>,
    <<(<<"x", "y">>), (<<"Mil rate", "59">>)>>,
    <<(<<"Mil rate", "59">>)>> }

\* what the fetch of the sheet ends in: a response that is ok and has a
\* text, a response that is not ok, or a rejection
Responses ==
  {[kind |-> "ok", text |-> t] : t \in SyncTexts}
    \cup {[kind |-> "notOk", text |-> <<>>],
          [kind |-> "rejected", text |-> <<>>]}

\* fetchSheetData giving an empty result where it throws
fetchSheetDataNoThrow(response) ==
  IF response.kind = "ok" THEN <<parseCSV(response.text)>>
  ELSE <<[people |-> <<>>, hasContribution |-> FALSE,
          extractedRate |-> <<>>]>>

\* fetchSheetData: <<the parse result>>, or <<>> when it throws
fetchSheetData(response) ==
  IF response.kind = "ok" THEN <<parseCSV(response.text)>> ELSE <<>>

\* the member lists dbService.getMembers may resolve with; an email is
\* <<local part, rest>>, sheet names are unique as written
DbMemberLists ==
  { <<>>,
    <<[sheetName |-> "A", email |-> <<"ann", "@mail.com">>]>>,
    <<[sheetName |-> "b ", email |-> <<"bob", "@mail.com">>],
      [sheetName |-> "A", email |-> <<"ann", "@mail.com">>],
      [sheetName |-> "a", email |-> <<"al", "@mail.com">>]>> }

Urls == {"sheet-url"}

EmptyString == <<"", "">>

\* dbMap.get(key) of new Map(dbMembers.map(m => [m.sheetName.toLowerCase()
\* .trim(), m.email])): the last entry of a key wins
DbMapGet(dbMembers, key) ==
  LET hits == {k \in 1..Len(dbMembers) :
                 trim(toLowerCase(dbMembers[k].sheetName)) = key}
  IN  IF hits = {} THEN <<>> ELSE <<dbMembers[Max(hits)].email>>

\* MergePerson taking the contribution from the directory as well
MergePersonContribution(sp, dbMembers) ==
  LET dbEmail == DbMapGet(dbMembers, trim(toLowerCase(sp.name)))
  IN  [id |-> sp.id, name |-> sp.name,
       email |-> IF dbEmail # <<>> /\ dbEmail[1] # EmptyString
                   THEN dbEmail[1] ELSE sp.email,
       meals |-> sp.meals,
       contribution |-> IF dbEmail # <<>> THEN 0 ELSE sp.contribution,
       customBalance |-> sp.customBalance]

\* the callback of sheetPeople.map
MergePerson(sp, dbMembers) ==
  LET dbEmail == DbMapGet(dbMembers, trim(toLowerCase(sp.name)))
  IN  [sp EXCEPT !.email = IF dbEmail # <<>> /\ dbEmail[1] # EmptyString
                             THEN dbEmail[1] ELSE sp.email]

\* sheetPeople.map(sp => ...)
MergePeople(sheetPeople, dbMembers) ==
  [k \in 1..Len(sheetPeople) |-> MergePerson(sheetPeople[k], dbMembers)]

\* setIsSyncing(true); setLastSheetUrl(url); the fetch is under way.  The
\* Sync button is disabled while isSyncing; handleRefresh syncs with
\* lastSheetUrl when there is one, whether or not a sync is under way.
SyncStart(c, url) ==
  /\ syncPc[c] = "idle"
  /\ ~isSyncing \/ url = lastSheetUrl
  /\ syncPc' = [syncPc EXCEPT ![c] = "fetching"]
  /\ isSyncing' = TRUE
  /\ lastSheetUrl' = url
  /\ UNCHANGED <<people, sheetMealRate, balances, sheetData, alert>>
  /\ UNCHANGED <<parserVars, serverVars>>

\* fetchSheetData throws: catch (alert), finally (setIsSyncing(false))
FetchFails(c, response) ==
  /\ syncPc[c] = "fetching"
  /\ fetchSheetData(response) = <<>>
  /\ alert' = <<"Error syncing sheet. Check URL or format.">>
  /\ isSyncing' = FALSE
  /\ syncPc' = [syncPc EXCEPT ![c] = "idle"]
  /\ UNCHANGED <<people, sheetMealRate, balances, sheetData, lastSheetUrl>>
  /\ UNCHANGED <<parserVars, serverVars>>

\* fetchSheetData resolves; dbService.getMembers is under way
FetchResolves(c, response) ==
  /\ syncPc[c] = "fetching"
  /\ fetchSheetData(response) # <<>>
  /\ sheetData' = [sheetData EXCEPT ![c] = fetchSheetData(response)]
  /\ syncPc' = [syncPc EXCEPT ![c] = "members"]
  /\ UNCHANGED <<people, sheetMealRate, balances, isSyncing, lastSheetUrl,
                 alert>>
  /\ UNCHANGED <<parserVars, serverVars>>

\* getMembers resolves: 3. Update Meal Rate, the merge or the alert, finally;
\* then the render recomputes the balances
MembersResolve(c, dbMembers) ==
  /\ syncPc[c] = "members"
  /\ LET sheetPeople == sheetData[c][1].people
         rate == sheetData[c][1].extractedRate
     IN  /\ sheetMealRate' = IF rate # <<>> /\ rate[1] # 0 THEN rate ELSE <<>>
         /\ IF Len(sheetPeople) > 0
              THEN /\ people' = MergePeople(sheetPeople, dbMembers)
                   /\ alert' = alert
              ELSE /\ people' = people
                   /\ alert' =
                        <<"Found no valid data in sheet. Check the format.">>
  /\ balances' = <<CalculatedBalances(people', sheetMealRate')>>
  /\ isSyncing' = FALSE
  /\ sheetData' = [sheetData EXCEPT ![c] = <<>>]
  /\ syncPc' = [syncPc EXCEPT ![c] = "idle"]
  /\ UNCHANGED lastSheetUrl
  /\ UNCHANGED <<parserVars, serverVars>>

InitSync ==
  /\ ParserIdle
  /\ people = NoPeople
  /\ sheetMealRate = <<>>
  /\ balances = <<CalculatedBalances(NoPeople, <<>>)>>
  /\ SyncIdle
  /\ ServerIdle

NextSync ==
  \/ \E c \in 1..MaxCalls, url \in Urls : SyncStart(c, url)
  \/ \E c \in 1..MaxCalls, response \in Responses : FetchFails(c, response)
  \/ \E c \in 1..MaxCalls, response \in Responses :
       FetchResolves(c, response)
  \/ \E c \in 1..MaxCalls, dbMembers \in DbMemberLists :
       MembersResolve(c, dbMembers)

SpecSync == InitSync /\ [][NextSync]_vars

(***************************************************************************)
(* The server: the stored user, the scheduler's jobs and the routes that   *)
(* save settings (schedulerService.ts, routes/notifications.ts, sheet.ts)  *)
(***************************************************************************)

\* a field of a request body: undefined, or <<its value>>
OptionalBoolean == {<<>>, <<TRUE>>, <<FALSE>>}

\* x as a condition, x a field of a request body
Truthy(x) == x = <<TRUE>>

\* if (x !== undefined) field = x
Provided(x, field) == IF x = <<>> THEN field ELSE x[1]

\* the bodies of POST /api/notifications/config
ConfigBodies ==
  [isEnabled : OptionalBoolean, autoSend : OptionalBoolean,
   emailEnabled : OptionalBoolean]

\* the bodies of POST /api/sheet/save-scheduler
SchedulerBodies == [autoSyncEnabled : OptionalBoolean]

\* the one url a user saves
CsvUrls == {"sheet-url"}

\* the task cron.schedule returns: one that is not live yet
NewTask(type) ==
  [id |-> CHOOSE i \in 1..MaxTasks :
            /\ i \notin {t.id : t \in tasks}
            /\ \A j \in 1..(i - 1) : j \in {t.id : t \in tasks},
   type |-> type]

\* stopScheduler: the tasks left live
StoppedTasks(type) ==
  IF jobs[type] = <<>> THEN tasks ELSE tasks \ {jobs[type][1]}

\* stopScheduler: the jobs left registered
StoppedJobs(type) == [jobs EXCEPT ![type] = <<>>]

\* what a start...Scheduler call tests on the user it has looked up
StartAllowed(type, user) ==
  IF type = "notification"
    THEN /\ user.notificationConfig.isEnabled
         /\ user.notificationConfig.autoSend
         /\ user.notificationConfig.emailEnabled
    ELSE user.autoSyncEnabled /\ user.csvUrl # <<>>

\* start...Scheduler up to its await: the old job is stopped, the lookup
\* of the user is under way
StartBegins(c, type, route) ==
  /\ startCalls[c] = <<>>
  /\ tasks' = StoppedTasks(type)
  /\ jobs' = StoppedJobs(type)
  /\ startCalls' = [startCalls EXCEPT ![c] = <<[type |-> type,
                                                route |-> route]>>]
  /\ res' = <<>>

\* POST /api/notifications/config: the provided fields are saved, then the
\* scheduler is started or stopped on the fields of the body
PostNotificationConfig(body) ==
  /\ userDoc' = [userDoc EXCEPT !.notificationConfig =
       [isEnabled |-> Provided(body.isEnabled, @.isEnabled),
        autoSend |-> Provided(body.autoSend, @.autoSend),
        emailEnabled |-> Provided(body.emailEnabled, @.emailEnabled)]]
  /\ IF Truthy(body.isEnabled) /\ Truthy(body.autoSend)
          /\ Truthy(body.emailEnabled)
       THEN \E c \in 1..MaxStarts :
              StartBegins(c, "notification", "POST /api/notifications/config")
       ELSE /\ tasks' = StoppedTasks("notification")
            /\ jobs' = StoppedJobs("notification")
            /\ res' = <<[route |-> "POST /api/notifications/config",
                              status |-> 200]>>
            /\ UNCHANGED startCalls
  /\ UNCHANGED <<parserVars, appVars, memberVars, taskVars, batchVars>>

\* POST /api/sheet/config: the url is saved
PostSheetConfig(url) ==
  /\ userDoc' = [userDoc EXCEPT !.csvUrl = <<url>>]
  /\ res' = <<[route |-> "POST /api/sheet/config", status |-> 200]>>
  /\ UNCHANGED <<jobs, tasks, startCalls>>
  /\ UNCHANGED <<parserVars, appVars, memberVars, taskVars, batchVars>>

\* DELETE /api/sheet/config: the url and the fetch time are unset
DeleteSheetConfig ==
  /\ userDoc' = [userDoc EXCEPT !.csvUrl = <<>>, !.lastFetchTime = <<>>]
  /\ res' = <<[route |-> "DELETE /api/sheet/config", status |-> 200]>>
  /\ UNCHANGED <<jobs, tasks, startCalls>>
  /\ UNCHANGED <<parserVars, appVars, memberVars, taskVars, batchVars>>

\* POST /api/sheet/save-scheduler: the provided field is saved, then the
\* scheduler is started or stopped on the saved user
PostSaveScheduler(body) ==
  /\ userDoc' = [userDoc EXCEPT !.autoSyncEnabled =
                   Provided(body.autoSyncEnabled, @)]
  /\ IF userDoc'.autoSyncEnabled /\ userDoc'.csvUrl # <<>>
       THEN \E c \in 1..MaxStarts :
              StartBegins(c, "sync", "POST /api/sheet/save-scheduler")
       ELSE /\ tasks' = StoppedTasks("sync")
            /\ jobs' = StoppedJobs("sync")
            /\ res' = <<[route |-> "POST /api/sheet/save-scheduler",
                              status |-> 200]>>
            /\ UNCHANGED startCalls
  /\ UNCHANGED <<parserVars, appVars, memberVars, taskVars, batchVars>>

\* start...Scheduler after its await: the user as stored now decides; the
\* new task is registered over whatever the key holds, and the route that
\* awaited the call responds
StartResolves(c) ==
  /\ startCalls[c] # <<>>
  /\ LET call == startCalls[c][1]
     IN  /\ IF StartAllowed(call.type, userDoc)
              THEN /\ Cardinality(tasks) < MaxTasks
                   /\ tasks' = tasks \cup {NewTask(call.type)}
                   /\ jobs' = [jobs EXCEPT ![call.type] =
                                 <<NewTask(call.type)>>]
              ELSE UNCHANGED <<jobs, tasks>>
         /\ res' = <<[route |-> call.route, status |-> 200]>>
  /\ startCalls' = [startCalls EXCEPT ![c] = <<>>]
  /\ UNCHANGED userDoc
  /\ UNCHANGED <<parserVars, appVars, memberVars, taskVars, batchVars>>

InitScheduler ==
  /\ ParserIdle
  /\ AppIdle
  /\ ServerIdle

NextScheduler ==
  \/ \E body \in ConfigBodies : PostNotificationConfig(body)
  \/ \E url \in CsvUrls : PostSheetConfig(url)
  \/ DeleteSheetConfig
  \/ \E body \in SchedulerBodies : PostSaveScheduler(body)
  \/ \E c \in 1..MaxStarts : StartResolves(c)

SpecScheduler == InitScheduler /\ [][NextScheduler]_vars


(***************************************************************************)
(* Properties.                                                             *)
(***************************************************************************)
\* parseCSV has returned
Returned == pc = "done"

\* parseCSV has returned the people of a summary table
FromSummary ==
  /\ Returned
  /\ result[1].people # <<>>
  /\ result[1].people[1].id[1] = "sheet-summary"

\* the header row of the summary table the returned people come from
HeaderRow == result[1].people[1].id[2] - 1

\* the cleaned cell of row i in the cost column of the header
CostCell(i) ==
  LET lowerCells == LowerCells(Cells(At(csvText, HeaderRow)))
  IN  At(Cells(At(csvText, i)), CostIdx(lowerCells, NameIdx(lowerCells)))

\* the cleaned cell of row i in the balance column of the header
BalanceCell(i) ==
  LET lowerCells == LowerCells(Cells(At(csvText, HeaderRow)))
  IN  At(Cells(At(csvText, i)), BalanceIdx(lowerCells, NameIdx(lowerCells)))

\* a cell as a number, an empty or unparseable one counting as 0
CellNumber(cell) == IF parseFloat(cell).nan THEN 0 ELSE parseFloat(cell).v

\* C1: in the App balance computation every person with a customBalance gets
\* exactly that as balance, whatever meals, contribution and rate are;
\* contribution - meals * rate is the balance only without a customBalance.
C1_CustomBalanceOverride ==
  balances # <<>> =>
    \A k \in 1..Len(people) :
      \E j \in 1..Len(balances[1]) :
        /\ balances[1][j].personId = people[k].id
        /\ IF people[k].customBalance # <<>>
             THEN balances[1][j].balance = people[k].customBalance[1]
             ELSE balances[1][j].balance =
                    people[k].contribution - balances[1][j].cost

\* a person whose customBalance differs from contribution - cost has been
\* given a balance, next to a person without customBalance
C1_Witness ==
  /\ balances # <<>>
  /\ \E k \in 1..Len(people), j \in 1..Len(balances[1]) :
       /\ balances[1][j].personId = people[k].id
       /\ people[k].customBalance # <<>>
       /\ balances[1][j].cost > 0
       /\ people[k].customBalance[1] #
            people[k].contribution - balances[1][j].cost
  /\ \E k \in 1..Len(people) : people[k].customBalance = <<>>

\* C2: every record from the summary table has as meals (1) the grid Total
\* recorded in pass 1 for its name, matched case-insensitively, when there is
\* one, else (2) cost / extractedRate rounded to two decimals when a rate
\* was extracted, else (3) 0.
C2_MealsPriority ==
  FromSummary =>
    \A k \in 1..Len(result[1].people) :
      LET p == result[1].people[k]
          key == toLowerCase(p.name)
          cost == CellNumber(CostCell(p.id[2]))
      IN  /\ key \in DOMAIN mealCounts => p.meals = mealCounts[key]
          /\ key \notin DOMAIN mealCounts /\ extractedRate # <<>> =>
               p.meals = DivToFixed2(cost, extractedRate[1])
          /\ key \notin DOMAIN mealCounts /\ extractedRate = <<>> =>
               p.meals = 0

\* with a rate extracted, a record whose name matches a grid total only
\* case-insensitively was returned, the total differing from cost / rate
C2_Witness ==
  /\ FromSummary
  /\ extractedRate # <<>>
  /\ \E k \in 1..Len(result[1].people) :
       LET p == result[1].people[k]
       IN  /\ toLowerCase(p.name) \in DOMAIN mealCounts
           /\ p.name \notin DOMAIN mealCounts
           /\ mealCounts[toLowerCase(p.name)] #
                DivToFixed2(CellNumber(CostCell(p.id[2])),
                            extractedRate[1])

\* C3: every record from the summary table has customBalance equal to the
\* row's balance cell and contribution equal to the cost cell plus the
\* balance cell, an empty or unparseable cell counting as 0; so
\* contribution - cost = customBalance.
C3_ContributionReconstructed ==
  FromSummary =>
    \A k \in 1..Len(result[1].people) :
      LET p == result[1].people[k]
          cost == CellNumber(CostCell(p.id[2]))
          balance == CellNumber(BalanceCell(p.id[2]))
      IN  /\ p.customBalance = <<balance>>
          /\ p.contribution = cost + balance
          /\ p.contribution - cost = p.customBalance[1]

\* a row with an unparseable cost and one with an empty cost, both with a
\* balance, were returned
C3_Witness ==
  /\ FromSummary
  /\ \E k \in 1..Len(result[1].people) :
       /\ CostCell(result[1].people[k].id[2]) = "abc"
       /\ result[1].people[k].customBalance # <<0>>
  /\ \E k \in 1..Len(result[1].people) :
       /\ CostCell(result[1].people[k].id[2]) = ""
       /\ result[1].people[k].customBalance # <<0>>

\* the number of rows pass 1 has scanned
Scanned ==
  IF pc = "pass1" THEN r
  ELSE IF pc \in {"pass2", "fallback", "done"} /\ Len(csvText) >= 2
         THEN Len(csvText)
         ELSE 0

\* the cell is a rate label
IsLabel(cell) == toLowerCase(cell) \in {"mil rate", "meal rate", "rate"}

\* the places of a row where a rate label is followed by a positive number
RatePlaces(cells) ==
  {i \in 1..(Len(cells) - 1) :
     /\ IsLabel(cells[i])
     /\ ~parseFloat(cells[i + 1]).nan
     /\ parseFloat(cells[i + 1]).v > 0}

\* the positive numbers that follow a rate label of the row
AnyLabelValues(cells) == {parseFloat(cells[i + 1]).v : i \in RatePlaces(cells)}

\* the positive number that follows the first rate label of the row
FirstLabelValues(cells) ==
  {parseFloat(cells[i + 1]).v :
     i \in {j \in RatePlaces(cells) : \A k \in 1..(j - 1) : ~IsLabel(cells[k])}}

\* the rate is one of the values of the last scanned row that has any,
\* values giving the values of every row
RateIsLastOf(values) ==
  LET rows == {k \in 1..Scanned : values[k] # {}}
  IN  IF rows = {} THEN extractedRate = <<>>
      ELSE extractedRate # <<>> /\ extractedRate[1] \in values[Max(rows)]

\* C4: when some row has the cell "Mil rate" followed by the cell "59" and
\* no later row has a rate label, parseCSV returns extractedRate = 59,
\* whatever the layout of the rest of the sheet.
C4_RateWhateverLayout ==
  (/\ Returned
   /\ \E k \in 1..Len(csvText) :
        /\ \E i \in 1..(Len(csvText[k]) - 1) :
             /\ Cells(csvText[k])[i] = "Mil rate"
             /\ Cells(csvText[k])[i + 1] = "59"
        /\ \A l \in (k + 1)..Len(csvText) :
             \A i \in 1..Len(csvText[l]) : ~IsLabel(Cells(csvText[l])[i]))
  => result[1].extractedRate = <<5900>>

Records == IF Returned THEN result[1].people ELSE <<>>

\* C6 as stated: every returned record has a non-empty name and no two
\* records of a result have the same name.
C6_NamesDistinct ==
  \A k, l \in 1..Len(Records) :
    /\ Records[k].name # ""
    /\ k # l => Records[k].name # Records[l].name

\* C6 as amended: every returned record has a non-empty name, the cleaned
\* name cell of its row, and no two records of a result have the same id.
C6_NamesNonEmpty ==
  \A k, l \in 1..Len(Records) :
    /\ Records[k].name # ""
    /\ \E i \in 1..Len(csvText[Records[k].id[2] + 1]) :
         Records[k].name = Clean(csvText[Records[k].id[2] + 1][i])
    /\ k # l => Records[k].id # Records[l].id

\* a summary table was returned whose rows end at a row with an empty name
C6_Witness ==
  /\ FromSummary
  /\ HeaderRow + Len(Records) + 1 < Len(csvText)
  /\ Len(csvText[HeaderRow + Len(Records) + 2]) = 3
  /\ Clean(csvText[HeaderRow + Len(Records) + 2][1]) = ""

\* the names C7 says end a table
StopsAsStated(name) ==
  name = "" \/ toLowerCase(name) = "total" \/ name = "Check"

\* the names that end a table
StopsAsCoded(name) ==
  \/ name = ""
  \/ includes(toLowerCase(name), "total")
  \/ toLowerCase(name) = "check"

\* row i of the text ends the table under the header row hdr, the names that
\* end a table being those C7 states (asStated) or those above
EndsTable(i, hdr, asStated) ==
  LET lowerCells == LowerCells(Cells(At(csvText, hdr)))
      nameIdx == NameIdx(lowerCells)
      costIdx == CostIdx(lowerCells, nameIdx)
      balanceIdx == BalanceIdx(lowerCells, nameIdx)
      row == Cells(At(csvText, i))
  IN  \/ Len(row) < nameIdx + 1
      \/ Len(row) < costIdx + 1
      \/ Len(row) < balanceIdx + 1
      \/ IF asStated THEN StopsAsStated(At(row, nameIdx))
                     ELSE StopsAsCoded(At(row, nameIdx))
      \/ At(row, costIdx) = "" /\ At(row, balanceIdx) = ""

\* the returned people are the rows below the header up to the first row
\* that ends the table, in order
PeopleAreRowsUpTo(asStated) ==
  FromSummary =>
    LET ends == {i \in (HeaderRow + 1)..(Len(csvText) - 1) :
                   EndsTable(i, HeaderRow, asStated)}
        end == IF ends = {} THEN Len(csvText)
               ELSE CHOOSE i \in ends : \A j \in ends : i <= j
    IN  /\ Len(Records) = end - HeaderRow - 1
        /\ \A k \in 1..Len(Records) : Records[k].id[2] = HeaderRow + k

\* C7 as stated: the people of a summary table are the rows below its header
\* up to the first row whose name is empty, is "Total" in any case or is
\* "Check", that is too short, or whose cost and balance are both empty.
C7_TableEndsAsStated == PeopleAreRowsUpTo(TRUE)

\* C7 as amended: the people of a summary table are the rows below its
\* header up to the first row whose name is empty, contains "total" in any
\* case or is "check" in any case, that is too short, or whose cost and
\* balance are both empty; no row after it is included.
C7_TableEndsAsCoded == PeopleAreRowsUpTo(FALSE)

\* a table was returned that a row with neither cost nor balance ends, a
\* well-formed row following it
C7_Witness ==
  /\ FromSummary
  /\ HeaderRow + Len(Records) + 2 < Len(csvText)
  /\ LET row == Cells(csvText[HeaderRow + Len(Records) + 2])
         after == Cells(csvText[HeaderRow + Len(Records) + 3])
     IN  /\ Len(row) = 3 /\ row[1] = "C" /\ row[2] = "" /\ row[3] = ""
         /\ Len(after) = 3 /\ after[1] = "A" /\ after[2] = "150"

\* row hdr has a name-header cell with a cost cell and a balance cell to its
\* right
IsSummaryHeader(hdr) ==
  LET lowerCells == LowerCells(Cells(At(csvText, hdr)))
  IN  \E n, c, b \in 1..Len(lowerCells) :
        /\ includes(lowerCells[n], "meal details") \/ lowerCells[n] = "name"
        /\ n < c /\ n < b
        /\ lowerCells[c] = "cost" \/ includes(lowerCells[c], "total cost")
        /\ \/ includes(lowerCells[b], "available")
           \/ includes(lowerCells[b], "balance")

\* row hdr has a name-header cell
HasNameHeader(hdr) ==
  \E n \in 1..Len(csvText[hdr + 1]) :
    LET c == toLowerCase(Cells(csvText[hdr + 1])[n])
    IN  includes(c, "meal details") \/ c = "name"

\* the summary header rows with a row below that does not end the table
YieldingHeaders ==
  {hdr \in 0..(Len(csvText) - 2) :
     IsSummaryHeader(hdr) /\ ~EndsTable(hdr + 1, hdr, FALSE)}

\* C8: the summary table used is the first row with a name header and a cost
\* and a balance column to its right that yields a person, rows with a name
\* header lacking one of the columns being passed over; parseCSV then
\* returns that table's rows with hasContribution = true and the rate of
\* pass 1, and nothing from a later table; without such a row no summary
\* table is returned.
C8_FirstYieldingTable ==
  Returned /\ Len(csvText) >= 2 =>
    IF YieldingHeaders = {}
      THEN ~FromSummary
      ELSE /\ FromSummary
           /\ HeaderRow \in YieldingHeaders
           /\ \A hdr \in YieldingHeaders : HeaderRow <= hdr
           /\ \A k \in 1..Len(Records) : Records[k].id[2] = HeaderRow + k
           /\ result[1].hasContribution
           /\ result[1].extractedRate = extractedRate

\* a table was returned whose header follows a row with a name header that
\* lacks a column, a later header yielding people too, with a rate extracted
C8_Witness ==
  /\ FromSummary
  /\ \E hdr \in 0..(HeaderRow - 1) :
       HasNameHeader(hdr) /\ ~IsSummaryHeader(hdr)
  /\ \E hdr \in YieldingHeaders : hdr > HeaderRow
  /\ result[1].extractedRate # <<>>

\* C9: in pass 1 a name's grid meal count is recorded by the first Total row
\* below the recorded grid header that has a number in a column mapped to
\* the name; once recorded it never changes; a Total row above any header
\* records nothing.
C9_FirstTotalRowWins ==
  [][LET cells == Cells(At(csvText, r))
         below == /\ pc = "pass1"
                  /\ toLowerCase(cells[1]) = "total"
                  /\ gridHeaderRowIndex' # -1
                  /\ r > gridHeaderRowIndex'
         Numbers(key) ==
           {parseFloat(At(cells, columnToNameMap'[k].col)).v :
              k \in {j \in 1..Len(columnToNameMap') :
                       /\ toLowerCase(columnToNameMap'[j].name) = key
                       /\ columnToNameMap'[j].col < Len(cells)
                       /\ ~parseFloat(At(cells, columnToNameMap'[j].col)).nan}}
         keys == {toLowerCase(columnToNameMap'[k].name) :
                    k \in 1..Len(columnToNameMap')}
     IN  /\ \A key \in DOMAIN mealCounts :
              key \in DOMAIN mealCounts' /\ mealCounts'[key] = mealCounts[key]
         /\ \A key \in (DOMAIN mealCounts') \ (DOMAIN mealCounts) :
              below /\ mealCounts'[key] \in Numbers(key)
         /\ below =>
              \A key \in keys :
                Numbers(key) # {} => key \in DOMAIN mealCounts'
    ]_vars

\* a Total row above the header, one below it that lacks a number for a
\* name, and a later one that has it have been scanned
C9_Witness ==
  /\ pc = "pass2"
  /\ \E t0, h, t1, t2 \in 1..Len(csvText) :
       /\ t0 < h /\ h < t1 /\ t1 < t2
       /\ gridHeaderRowIndex = h - 1
       /\ \A t \in {t0, t1, t2} : toLowerCase(Cells(csvText[t])[1]) = "total"
       /\ parseFloat(Cells(csvText[t1])[2]).nan
       /\ ~parseFloat(Cells(csvText[t2])[2]).nan
       /\ mealCounts # EmptyMap
       /\ \E key \in DOMAIN mealCounts :
            mealCounts[key] = parseFloat(Cells(csvText[t2])[2]).v

\* the qualifying cells of a row, as column and name
QualifyingCells(cells) ==
  {[col |-> i - 1, name |-> cells[i]] :
     i \in {j \in 2..Len(cells) :
              /\ cells[j] # ""
              /\ toLowerCase(cells[j]) \notin {"joma", "total", "tot / day"}}}

\* the scanned rows that are a grid header
ScannedHeaders ==
  {k \in 1..Scanned :
     /\ toLowerCase(Cells(csvText[k])[1]) = "date"
     /\ Cardinality(QualifyingCells(Cells(csvText[k]))) > 1}

\* C10: only a "date" row with more than one qualifying name cell is a grid
\* header and only the last one is retained: the column-to-name map holds
\* exactly the qualifying cells of that row, nothing from an earlier header
\* or from a "date" row with at most one qualifying cell.
C10_MapIsLastHeader ==
  /\ gridHeaderRowIndex =
       IF ScannedHeaders = {} THEN -1 ELSE Max(ScannedHeaders) - 1
  /\ {columnToNameMap[k] : k \in 1..Len(columnToNameMap)} =
       IF ScannedHeaders = {} THEN {}
       ELSE QualifyingCells(Cells(csvText[Max(ScannedHeaders)]))

\* C11: whenever parseCSV returns an empty people list, hasContribution is
\* false, also for a simple list whose header has name, meal and paid columns
\* and whose other rows have no name.
C11_EmptyMeansNoContribution ==
  (Returned /\ result[1].people = <<>>) => ~result[1].hasContribution

\* C12: a text of fewer than 2 lines makes parseCSV return no people, no
\* contribution and no rate without running a pass.
C12_TooFewLines ==
  Len(csvText) < 2 =>
    /\ pc \in {"start", "done"}
    /\ Returned =>
         result[1] = [people |-> <<>>, hasContribution |-> FALSE,
                      extractedRate |-> <<>>]

\* parseCSV has returned on the single line "Mil rate,59"
C12_Witness ==
  /\ Returned
  /\ csvText = <<(<<"Mil rate", "59">>)>>
  /\ result[1].people = <<>>

\* parseCSV has returned the result of the simple list
FromSimpleList ==
  /\ Returned
  /\ Len(csvText) >= 2
  /\ \/ result[1].people = <<>>
     \/ result[1].people[1].id[1] = "sheet-list"

\* the row a record was made from
RowOf(rec) == Cells(At(csvText, rec.id[2]))

\* the columns the summary table of the returned people is read at
SummaryColumns ==
  LET lowerCells == LowerCells(Cells(At(csvText, HeaderRow)))
      nameIdx == NameIdx(lowerCells)
  IN  {nameIdx, CostIdx(lowerCells, nameIdx), BalanceIdx(lowerCells, nameIdx)}

\* cell idx of a row is missing or no number
Unparseable(row, idx) ==
  idx < 0 \/ idx >= Len(row) \/ parseFloat(At(row, idx)).nan

\* the steps parseCSV has left at most before its return
StepsLeft ==
  CASE pc = "start" -> 2 * Len(csvText) + 2
    [] pc = "pass1" -> 2 * Len(csvText) + 1 - r
    [] pc = "pass2" -> Len(csvText) + 1 - r
    [] pc = "fallback" -> 1
    [] OTHER -> 0

\* parseCSV is in one of its passes or has returned, every row it reads
\* exists, its result is a people list with the two flags, a row shorter than
\* the columns of the summary table ends the table, a row without the name
\* column is left out of the simple list, and an unparseable or missing
\* numeric cell counts as 0
C13_ResultOrRunning ==
  /\ pc \in {"start", "pass1", "pass2", "fallback", "done"}
  /\ pc \in {"pass1", "pass2"} => r \in 0..(Len(csvText) - 1)
  /\ Returned =>
       /\ DOMAIN result[1] = {"people", "hasContribution", "extractedRate"}
       /\ result[1].hasContribution \in BOOLEAN
       /\ \A k \in 1..Len(result[1].people) :
            result[1].people[k].id[2] \in 1..(Len(csvText) - 1)
  /\ FromSummary =>
       \A k \in 1..Len(result[1].people) :
         LET rec == result[1].people[k]
         IN  /\ \A idx \in SummaryColumns : idx < Len(RowOf(rec))
             /\ (Unparseable(RowOf(rec), CostIdx(
                    LowerCells(Cells(At(csvText, HeaderRow))),
                    NameIdx(LowerCells(Cells(At(csvText, HeaderRow))))))
                  => rec.contribution = rec.customBalance[1])
  /\ FromSimpleList =>
       LET headers == Headers(At(csvText, 0))
       IN  \A k \in 1..Len(result[1].people) :
             LET rec == result[1].people[k]
             IN  /\ SimpleNameIdx(headers) < Len(RowOf(rec))
                 /\ (Unparseable(RowOf(rec), SimpleMealIdx(headers))
                      => rec.meals = 0)
                 /\ (Unparseable(RowOf(rec), SimplePaidIdx(headers))
                      => rec.contribution = 0)

\* C13: parseCSV completes with a result for every CSV text, whatever the
\* rows: every step brings it nearer to its return, there is no outcome but
\* the return of a result, and short rows and unparseable cells end the table,
\* are left out or count as 0.
C13_AlwaysAResult ==
  /\ []C13_ResultOrRunning
  /\ [][StepsLeft' < StepsLeft /\ StepsLeft' >= 0]_vars

\* the simple list under the header "Count,Member" has left out the short
\* row "C" and has read the unparseable meal cell "A" as 0
C13_Witness ==
  /\ FromSimpleList
  /\ At(csvText, 0) = <<"Count", "Member">>
  /\ \E i \in 1..(Len(csvText) - 1) : At(csvText, i) = <<"C">>
  /\ \E k \in 1..Len(result[1].people) :
       /\ RowOf(result[1].people[k]) = <<"A", "3", "100">>
       /\ result[1].people[k].meals = 0

\* the message of the catch block of handleSyncSheet
SyncError == "Error syncing sheet. Check URL or format."

\* C14: a fetch that is not ok or is rejected makes fetchSheetData throw, so
\* no parse result comes of it; the call of handleSyncSheet whose fetch ends
\* so alerts the error, sets isSyncing to false and changes neither the
\* people nor the sheet meal rate, which its start did not change either.
C14_FetchFailure ==
  /\ [](\A response \in Responses :
          response.kind # "ok" => fetchSheetData(response) = <<>>)
  /\ [][\A c \in 1..MaxCalls :
          /\ (syncPc[c] = "idle" /\ syncPc'[c] = "fetching") =>
               (people' = people /\ sheetMealRate' = sheetMealRate)
          /\ (syncPc[c] = "fetching" /\ syncPc'[c] = "members") =>
               \E response \in Responses :
                 /\ response.kind = "ok"
                 /\ sheetData'[c] = <<parseCSV(response.text)>>
          /\ (syncPc[c] = "fetching" /\ syncPc'[c] = "idle") =>
               /\ sheetData'[c] = <<>>
               /\ alert' = <<SyncError>>
               /\ people' = people
               /\ sheetMealRate' = sheetMealRate
               /\ balances' = balances
               /\ isSyncing' = FALSE]_vars

\* after a sync that stored people and a rate, a sync has failed: the error
\* is alerted, people and rate are still there and isSyncing is false
C14_Witness ==
  /\ alert = <<SyncError>>
  /\ people # <<>>
  /\ sheetMealRate = <<5900>>
  /\ isSyncing = FALSE
  /\ \A c \in 1..MaxCalls : syncPc[c] = "idle"

\* the columns of line 0 as the rows of the sheet have them: the first
\* cleaned, lowercased cell containing one of two words, -1 without one
HeaderColumn(word, other) ==
  LET cells == LowerCells(Cells(At(csvText, 0)))
  IN  findIndex([k \in 1..Len(cells) |->
                   includes(cells[k], word) \/ includes(cells[k], other)])

\* the rows below line 0 that have a non-empty cell in the name column
NamedRows ==
  {i \in 1..(Len(csvText) - 1) :
     /\ HeaderColumn("name", "member") < Len(Cells(At(csvText, i)))
     /\ At(Cells(At(csvText, i)), HeaderColumn("name", "member")) # ""}

\* the number in cell idx of a row, 0 for a missing or unparseable cell
NumberAt(row, idx) ==
  IF Unparseable(row, idx) THEN 0 ELSE parseFloat(At(row, idx)).v

\* C15: parseCSV returns a simple list only when no summary table yields a
\* person; with a name/member and a meal/count column in line 0 the people
\* are the later rows with a non-empty name cell, in order, meals and
\* contribution being the numbers in the row's meal and paid cells, 0 when
\* unparseable or without a paid column, whatever the rate and the grid
\* totals are, and hasContribution tells whether there is a paid/amount
\* column; without the two columns the result is no people and no
\* contribution.
C15_SimpleListReadDirectly ==
  (Returned /\ Len(csvText) >= 2) =>
    /\ FromSimpleList <=> YieldingHeaders = {}
    /\ FromSimpleList =>
         LET nameCol == HeaderColumn("name", "member")
             mealCol == HeaderColumn("meal", "count")
             paidCol == HeaderColumn("paid", "amount")
             ppl == result[1].people
         IN  IF nameCol # -1 /\ mealCol # -1
               THEN /\ result[1].hasContribution <=> paidCol # -1
                    /\ {ppl[k].id[2] : k \in 1..Len(ppl)} = NamedRows
                    /\ \A k \in 1..(Len(ppl) - 1) :
                         ppl[k].id[2] < ppl[k + 1].id[2]
                    /\ \A k \in 1..Len(ppl) :
                         /\ ppl[k].name = At(RowOf(ppl[k]), nameCol)
                         /\ ppl[k].meals = NumberAt(RowOf(ppl[k]), mealCol)
                         /\ ppl[k].contribution =
                              NumberAt(RowOf(ppl[k]), paidCol)
               ELSE /\ ppl = <<>>
                    /\ ~result[1].hasContribution

\* the sum of a field over the people
Total(field) == SumOf(people, field)

\* the rate by the stated priority
RateByPriority ==
  IF sheetMealRate # <<>> /\ sheetMealRate[1] > 0 THEN sheetMealRate[1]
  ELSE IF Total("meals") > 0
         THEN Quotient(Total("contribution"), Total("meals"))
         ELSE 0

\* C16: the rate of the balances is the stored sheet rate when there is one
\* greater than 0, else total contribution / total meals when total meals is
\* greater than 0, else 0; each person's cost is meals times that rate.
C16_RatePriority ==
  (pc = "idle" /\ balances # <<>>) =>
    /\ Len(balances[1]) = Len(people)
    /\ \A j \in 1..Len(balances[1]) :
         balances[1][j].cost = Product(balances[1][j].meals, RateByPriority)

\* costs were computed at a stored sheet rate that differs from total
\* contribution / total meals
C16_Witness ==
  /\ pc = "idle"
  /\ balances # <<>>
  /\ sheetMealRate = <<5900>>
  /\ Total("meals") > 0
  /\ Quotient(Total("contribution"), Total("meals")) # 5900
  /\ \E j \in 1..Len(balances[1]) : balances[1][j].cost = 17700

\* C17: every balance record has exactly one status: OWED exactly when its
\* balance is greater than 1, OWES exactly when it is less than -1, SETTLED
\* otherwise, so at exactly 1 and at exactly -1.
C17_StatusThresholds ==
  (pc = "idle" /\ balances # <<>>) =>
    \A j \in 1..Len(balances[1]) :
      LET rec == balances[1][j]
      IN  /\ rec.status \in {"OWED", "OWES", "SETTLED"}
          /\ rec.status = "OWED" <=> rec.balance > 100
          /\ rec.status = "OWES" <=> rec.balance < -100
          /\ rec.status = "SETTLED" <=>
               (-100 <= rec.balance /\ rec.balance <= 100)

\* a balance of exactly -1 and a balance of exactly 1 are both SETTLED
C17_Witness ==
  /\ pc = "idle"
  /\ balances # <<>>
  /\ \E i, j \in 1..Len(balances[1]) :
       /\ balances[1][i].balance = -100
       /\ balances[1][i].status = "SETTLED"
       /\ balances[1][j].balance = 100
       /\ balances[1][j].status = "SETTLED"

\* C18: the balance records are one record per person, those of the people
\* in some order, and that order is ascending by balance: no record has a
\* greater balance than the one after it.
C18_SortedPermutation ==
  (pc = "idle" /\ balances # <<>>) =>
    /\ Len(balances[1]) = Len(people)
    /\ \A k \in 1..Len(people) :
         \E j \in 1..Len(balances[1]) :
           /\ balances[1][j].personId = people[k].id
           /\ balances[1][j].name = people[k].name
           /\ balances[1][j].meals = people[k].meals
           /\ balances[1][j].contribution = people[k].contribution
           /\ \A i \in 1..Len(balances[1]) :
                balances[1][i].personId = people[k].id => i = j
    /\ \A j \in 1..(Len(balances[1]) - 1) :
         balances[1][j].balance <= balances[1][j + 1].balance

\* the record of the second person, whose balance is the lesser, comes first
C18_Witness ==
  /\ pc = "idle"
  /\ balances # <<>>
  /\ Len(people) >= 2
  /\ balances[1][1].personId = people[2].id
  /\ balances[1][1].balance < balances[1][2].balance

\* C19: every record parseCSV returns has meals >= 0, whether meals came
\* from a Total cell of the grid, from cost / extractedRate or from the meal
\* column of a simple list.
C19_MealsNonNegative ==
  Returned =>
    \A k \in 1..Len(result[1].people) : result[1].people[k].meals >= 0

\* the entries of a member list whose sheet name, lowercased and trimmed, is
\* the lowercased and trimmed name
Matching(dbMembers, name) ==
  {m \in 1..Len(dbMembers) :
     trim(toLowerCase(dbMembers[m].sheetName)) = trim(toLowerCase(name))}

\* merged is sheetPeople with nothing but emails changed, by the directory
MergedByDirectory(merged, sheetPeople, dbMembers) ==
  /\ Len(merged) = Len(sheetPeople)
  /\ \A k \in 1..Len(sheetPeople) :
       /\ merged[k].id = sheetPeople[k].id
       /\ merged[k].name = sheetPeople[k].name
       /\ merged[k].meals = sheetPeople[k].meals
       /\ merged[k].contribution = sheetPeople[k].contribution
       /\ merged[k].customBalance = sheetPeople[k].customBalance
       /\ LET hits == Matching(dbMembers, sheetPeople[k].name)
          IN  IF hits = {}
                THEN merged[k].email = sheetPeople[k].email
                ELSE merged[k].email = dbMembers[Max(hits)].email

C21_SheetScenario ==
  (Returned /\ csvText = SheetText) =>
    /\ result[1].extractedRate = <<5000>>
    /\ result[1].hasContribution
    /\ Len(result[1].people) = 2
    /\ result[1].people[1].name = "A"
    /\ result[1].people[1].meals = 300
    /\ result[1].people[1].contribution = 12000
    /\ result[1].people[1].customBalance = <<-3000>>
    /\ result[1].people[2].name = "B"
    /\ result[1].people[2].meals = 200
    /\ result[1].people[2].contribution = 12000
    /\ result[1].people[2].customBalance = <<2000>>

\* parseCSV has returned on that sheet
C21_Witness ==
  /\ Returned
  /\ csvText = SheetText
  /\ Len(csvText) = 7
  /\ result[1].people # <<>>

\* the calls that have returned: those before, and the running one if done
Finished ==
  IF Returned
    THEN Append(parses, [text |-> csvText, result |-> result[1]])
    ELSE parses

\* C22: parseCSV is a function of its text: two calls on the same text,
\* whatever was parsed in between, return equal results, people with their
\* ids, names, meals, contribution and customBalance in the same order,
\* hasContribution and extractedRate; and every result is what the text
\* alone determines.
C22_SameTextSameResult ==
  \A i, j \in 1..Len(Finished) :
    /\ Finished[i].text = Finished[j].text =>
         Finished[i].result = Finished[j].result
    /\ Finished[i].result = parseCSV(Finished[i].text)

\* the third call has returned on the text of the first, which has a summary
\* table and no grid, after a call on a text with a grid and a rate
C22_Witness ==
  /\ Returned
  /\ Len(parses) = 2
  /\ parses[1].text = csvText
  /\ parses[2].text # csvText
  /\ parses[2].result.extractedRate = <<5000>>
  /\ result[1].people # <<>>
  /\ result[1].people[1].meals = 0

(***************************************************************************)
(* The server: the member routes (routes/members.ts and the serverless     *)
(* netlify/functions/server-cjs.js over the same collection).  A request   *)
(* checks, awaits, then writes; requests run side by side.                 *)
(***************************************************************************)
\* the sheet names and emails of request bodies
SheetNames == {"A", "a", "B"}
Emails == {<<"ann", "@mail.com">>, <<"al", "@mail.com">>}

\* the bodies of the member requests; sheetName may be missing
MemberBodies == [sheetName : {<<>>} \cup {<<n>> : n \in SheetNames},
                 email : Emails]

\* the ids requests name in their path
MemberIds == 1..MaxMembers

\* sheetName: { $regex: new RegExp(`^${sheetName}$`, 'i') }
RegexMatches(stored, sheetName) ==
  toLowerCase(stored) = toLowerCase(sheetName)

\* the unique index of { userId, sheetName } comparing names as written
IndexRejects(id, sheetName) ==
  \E m \in members : m.id # id /\ m.sheetName = sheetName

\* the response of a member route
MemberResponse(route, status) == <<[route |-> route, status |-> status]>>

\* POST /api/members up to newMember.save(): the body is validated and a
\* member of the same name, ignoring case, is looked for
PostMemberChecks(c, body) ==
  /\ memberCalls[c] = <<>>
  /\ IF body.sheetName = <<>>
       THEN /\ res' = MemberResponse("POST /api/members", 400)
            /\ UNCHANGED memberCalls
       ELSE IF \E m \in members : RegexMatches(m.sheetName, body.sheetName[1])
              THEN /\ res' = MemberResponse("POST /api/members", 400)
                   /\ UNCHANGED memberCalls
              ELSE /\ res' = <<>>
                   /\ memberCalls' = [memberCalls EXCEPT ![c] =
                        <<[route |-> "POST /api/members", id |-> 0,
                           body |-> body]>>]
  /\ UNCHANGED <<members, nextMemberId>>
  /\ UNCHANGED <<parserVars, appVars, schedulerVars, taskVars, batchVars>>

\* newMember.save(): the document is inserted unless the index rejects it
PostMemberSaves(c) ==
  /\ memberCalls[c] # <<>>
  /\ memberCalls[c][1].route = "POST /api/members"
  /\ nextMemberId <= MaxMembers
  /\ LET body == memberCalls[c][1].body
     IN  IF IndexRejects(0, body.sheetName[1])
           THEN /\ res' = MemberResponse("POST /api/members", 500)
                /\ UNCHANGED <<members, nextMemberId>>
           ELSE /\ res' = MemberResponse("POST /api/members", 201)
                /\ members' = members \cup
                     {[id |-> nextMemberId, sheetName |-> body.sheetName[1],
                       email |-> body.email]}
                /\ nextMemberId' = nextMemberId + 1
  /\ memberCalls' = [memberCalls EXCEPT ![c] = <<>>]
  /\ UNCHANGED <<parserVars, appVars, schedulerVars, taskVars, batchVars>>

\* PUT /api/members/:id up to member.save(): the member is looked up
PutMemberFinds(c, id, body) ==
  /\ memberCalls[c] = <<>>
  /\ IF \E m \in members : m.id = id
       THEN /\ res' = <<>>
            /\ memberCalls' = [memberCalls EXCEPT ![c] =
                 <<[route |-> "PUT /api/members/:id", id |-> id,
                    body |-> body]>>]
       ELSE /\ res' = MemberResponse("PUT /api/members/:id", 404)
            /\ UNCHANGED memberCalls
  /\ UNCHANGED <<members, nextMemberId>>
  /\ UNCHANGED <<parserVars, appVars, schedulerVars, taskVars, batchVars>>

\* the member with the fields a PUT body provides
UpdatedMember(m, body) ==
  [id |-> m.id,
   sheetName |-> IF body.sheetName = <<>> THEN m.sheetName
                 ELSE body.sheetName[1],
   email |-> body.email]

\* member.save(): the document is written unless it is gone or the index
\* rejects it
PutMemberSaves(c) ==
  /\ memberCalls[c] # <<>>
  /\ memberCalls[c][1].route = "PUT /api/members/:id"
  /\ LET id == memberCalls[c][1].id
         body == memberCalls[c][1].body
         stored == {m \in members : m.id = id}
     IN  IF stored = {}
           THEN /\ res' = MemberResponse("PUT /api/members/:id", 500)
                /\ UNCHANGED members
           ELSE LET m == CHOOSE m \in stored : TRUE
                IN  IF IndexRejects(id, UpdatedMember(m, body).sheetName)
                      THEN /\ res' = MemberResponse("PUT /api/members/:id",
                                                    500)
                           /\ UNCHANGED members
                      ELSE /\ res' = MemberResponse("PUT /api/members/:id",
                                                    200)
                           /\ members' = (members \ {m})
                                           \cup {UpdatedMember(m, body)}
  /\ memberCalls' = [memberCalls EXCEPT ![c] = <<>>]
  /\ UNCHANGED nextMemberId
  /\ UNCHANGED <<parserVars, appVars, schedulerVars, taskVars, batchVars>>

\* the serverless PUT /api/members/:id up to findOneAndUpdate: the body is
\* validated and another member of the same name, ignoring case, is looked
\* for
ServerlessPutChecks(c, id, body) ==
  /\ memberCalls[c] = <<>>
  /\ IF body.sheetName = <<>>
       THEN /\ res' = MemberResponse("serverless PUT /api/members/:id", 400)
            /\ UNCHANGED memberCalls
       ELSE IF \E m \in members :
                 m.id # id /\ RegexMatches(m.sheetName, body.sheetName[1])
              THEN /\ res' = MemberResponse(
                                "serverless PUT /api/members/:id", 400)
                   /\ UNCHANGED memberCalls
              ELSE /\ res' = <<>>
                   /\ memberCalls' = [memberCalls EXCEPT ![c] =
                        <<[route |-> "serverless PUT /api/members/:id",
                           id |-> id, body |-> body]>>]
  /\ UNCHANGED <<members, nextMemberId>>
  /\ UNCHANGED <<parserVars, appVars, schedulerVars, taskVars, batchVars>>

\* Member.findOneAndUpdate of the serverless PUT
ServerlessPutUpdates(c) ==
  /\ memberCalls[c] # <<>>
  /\ memberCalls[c][1].route = "serverless PUT /api/members/:id"
  /\ LET id == memberCalls[c][1].id
         body == memberCalls[c][1].body
         stored == {m \in members : m.id = id}
     IN  IF stored = {}
           THEN /\ res' = MemberResponse("serverless PUT /api/members/:id",
                                         404)
                /\ UNCHANGED members
           ELSE LET m == CHOOSE m \in stored : TRUE
                IN  IF IndexRejects(id, body.sheetName[1])
                      THEN /\ res' = MemberResponse(
                                       "serverless PUT /api/members/:id", 500)
                           /\ UNCHANGED members
                      ELSE /\ res' = MemberResponse(
                                       "serverless PUT /api/members/:id", 200)
                           /\ members' = (members \ {m})
                                           \cup {UpdatedMember(m, body)}
  /\ memberCalls' = [memberCalls EXCEPT ![c] = <<>>]
  /\ UNCHANGED nextMemberId
  /\ UNCHANGED <<parserVars, appVars, schedulerVars, taskVars, batchVars>>

\* DELETE /api/members/:id
DeleteMember(id) ==
  /\ IF \E m \in members : m.id = id
       THEN /\ members' = {m \in members : m.id # id}
            /\ res' = MemberResponse("DELETE /api/members/:id", 200)
       ELSE /\ UNCHANGED members
            /\ res' = MemberResponse("DELETE /api/members/:id", 404)
  /\ UNCHANGED <<nextMemberId, memberCalls>>
  /\ UNCHANGED <<parserVars, appVars, schedulerVars, taskVars, batchVars>>

InitMembers ==
  /\ ParserIdle
  /\ AppIdle
  /\ ServerIdle

NextMembers ==
  \/ \E c \in 1..MaxRequests, body \in MemberBodies : PostMemberChecks(c, body)
  \/ \E c \in 1..MaxRequests : PostMemberSaves(c)
  \/ \E c \in 1..MaxRequests, id \in MemberIds, body \in MemberBodies :
       PutMemberFinds(c, id, body)
  \/ \E c \in 1..MaxRequests : PutMemberSaves(c)
  \/ \E c \in 1..MaxRequests, id \in MemberIds, body \in MemberBodies :
       ServerlessPutChecks(c, id, body)
  \/ \E c \in 1..MaxRequests : ServerlessPutUpdates(c)
  \/ \E id \in MemberIds : DeleteMember(id)

SpecMembers == InitMembers /\ [][NextMembers]_vars


(***************************************************************************)
(* The server: runSyncTask, run by the sync job and by the manual trigger. *)
(* A run awaits the user, the fetch and the text, then parses and saves.   *)
(***************************************************************************)
\* a person an earlier sync has stored
StoredPerson ==
  [id |-> <<"sheet-summary", 1>>, name |-> "C", email |-> EmptyEmail,
   meals |-> 100, contribution |-> 0, customBalance |-> <<0>>]

\* the users a run may find stored: with or without a csvUrl, never synced
\* or synced at time 0
StoredUsers ==
  {[NewUser EXCEPT !.csvUrl = url, !.syncedPeople = data.syncedPeople,
                   !.sheetMealRate = data.sheetMealRate,
                   !.lastFetchTime = data.lastFetchTime] :
     url \in {<<>>, <<"sheet-url">>},
     data \in {[syncedPeople |-> <<>>, sheetMealRate |-> <<>>,
                lastFetchTime |-> <<>>],
               [syncedPeople |-> <<StoredPerson>>,
                sheetMealRate |-> <<5900>>,
                lastFetchTime |-> <<0>>]}}

\* the user saved with lastFetchTime left as it was
SyncedUserKeepingTime(user, parsed, now) ==
  [user EXCEPT !.syncedPeople = parsed.people,
               !.sheetMealRate =
                 IF parsed.extractedRate # <<>> /\ parsed.extractedRate[1] # 0
                   THEN parsed.extractedRate ELSE <<>>]

\* user.syncedPeople = people; user.sheetMealRate = extractedRate || null;
\* user.lastFetchTime = new Date(); await user.save()
SyncedUser(user, parsed, now) ==
  [user EXCEPT !.syncedPeople = parsed.people,
               !.sheetMealRate =
                 IF parsed.extractedRate # <<>> /\ parsed.extractedRate[1] # 0
                   THEN parsed.extractedRate ELSE <<>>,
               !.lastFetchTime = <<now>>]

\* the cron task fires or the manual trigger is called: runSyncTask up to
\* await User.findById
RunSyncTask(c) ==
  /\ syncRuns[c] = <<>>
  /\ syncRuns' = [syncRuns EXCEPT ![c] = <<[pc |-> "find", text |-> <<>>]>>]
  /\ UNCHANGED <<clock, schedulerVars, res>>
  /\ UNCHANGED <<parserVars, appVars, memberVars, batchVars>>

\* User.findById resolves: the run returns when there is no user or no
\* csvUrl, and fetches otherwise
UserResolves(c, found) ==
  /\ syncRuns[c] # <<>>
  /\ syncRuns[c][1].pc = "find"
  /\ syncRuns' = [syncRuns EXCEPT ![c] =
       IF ~found \/ userDoc.csvUrl = <<>> THEN <<>>
       ELSE <<[pc |-> "fetch", text |-> <<>>]>>]
  /\ UNCHANGED <<clock, schedulerVars, res>>
  /\ UNCHANGED <<parserVars, appVars, memberVars, batchVars>>

\* fetch settles: a rejection or a response that is not ok ends the run in
\* its catch block
FetchSettles(c, response) ==
  /\ syncRuns[c] # <<>>
  /\ syncRuns[c][1].pc = "fetch"
  /\ syncRuns' = [syncRuns EXCEPT ![c] =
       IF response.kind = "ok"
         THEN <<[pc |-> "text", text |-> response.text]>>
         ELSE <<>>]
  /\ UNCHANGED <<clock, schedulerVars, res>>
  /\ UNCHANGED <<parserVars, appVars, memberVars, batchVars>>

\* response.text() resolves: the text is parsed; with no people the run
\* returns, otherwise the three fields are set and saved (saved is FALSE
\* when user.save() rejects)
TextResolves(c, saved) ==
  /\ syncRuns[c] # <<>>
  /\ syncRuns[c][1].pc = "text"
  /\ LET parsed == serverParseCSV(syncRuns[c][1].text)
     IN  IF Len(parsed.people) = 0
           THEN UNCHANGED <<userDoc, clock>>
           ELSE /\ clock < MaxClock
                /\ clock' = clock + 1
                /\ userDoc' = IF saved THEN SyncedUser(userDoc, parsed, clock)
                              ELSE userDoc
  /\ syncRuns' = [syncRuns EXCEPT ![c] = <<>>]
  /\ UNCHANGED <<jobs, tasks, startCalls, res>>
  /\ UNCHANGED <<parserVars, appVars, memberVars, batchVars>>

InitSyncTask ==
  /\ ParserIdle
  /\ AppIdle
  /\ userDoc \in StoredUsers
  /\ JobsIdle
  /\ MembersIdle
  /\ SyncTaskIdle
  /\ BatchIdle

NextSyncTask ==
  \/ \E c \in 1..MaxRuns : RunSyncTask(c)
  \/ \E c \in 1..MaxRuns, found \in BOOLEAN : UserResolves(c, found)
  \/ \E c \in 1..MaxRuns, response \in Responses : FetchSettles(c, response)
  \/ \E c \in 1..MaxRuns, saved \in BOOLEAN : TextResolves(c, saved)

SpecSyncTask == InitSyncTask /\ [][NextSyncTask]_vars


(***************************************************************************)
(* The server: a batch of reminders, processed by POST /send-batch-emails  *)
(* or by runNotificationTask.  One round of the loop awaits the lookup of  *)
(* the member, then the sending of the email.                              *)
(***************************************************************************)
\* the batches: a reminder is TRUE when it comes with an email, which only
\* the notifications of the route may
Batches(by, n) ==
  IF by = "route" THEN [1..n -> BOOLEAN] ELSE [1..n -> {FALSE}]

\* what Member.findOne gives, and what sendNotificationEmail gives
Lookups == {"member", "none", "throws"}
Sendings == {"true", "false", "throws"}

\* results.failed++ / failed++
Failed(counters) == [counters EXCEPT !.failed = @ + 1]

\* if (success) sent++ with nothing counted otherwise
SentOnly(counters, sending) ==
  IF sending = "true" THEN [counters EXCEPT !.sent = @ + 1] ELSE counters

\* if (success) sent++ else failed++, and failed++ in the catch block
Sent(counters, sending) ==
  IF sending = "true" THEN [counters EXCEPT !.sent = @ + 1]
  ELSE Failed(counters)

\* reminder i counted once more
CountedOnce(i) == [counted EXCEPT ![i] = @ + 1]

\* the request or the task reaches the loop; an empty batch ends at once,
\* the route responding 400
BatchBegins ==
  /\ batchPc = "idle"
  /\ IF Len(notifications) = 0
       THEN /\ batchPc' = "done"
            /\ res' = IF batchBy = "route"
                        THEN <<[route |-> "POST /send-batch-emails",
                                status |-> 400]>>
                        ELSE <<>>
       ELSE /\ batchPc' = "loop"
            /\ res' = <<>>
  /\ UNCHANGED <<notifications, batchBy, position, results, counted>>
  /\ UNCHANGED <<parserVars, appVars, schedulerVars, memberVars, taskVars>>

\* one round up to the sending: a reminder with an email goes on to the
\* sending; otherwise the member is looked up, and a lookup that throws or
\* finds no member counts the reminder as failed
LookUp(lookup) ==
  /\ batchPc = "loop"
  /\ position < Len(notifications)
  /\ IF notifications[position + 1] \/ lookup = "member"
       THEN /\ batchPc' = "send"
            /\ UNCHANGED <<position, results, counted>>
       ELSE /\ batchPc' = "loop"
            /\ position' = position + 1
            /\ results' = Failed(results)
            /\ counted' = CountedOnce(position + 1)
  /\ UNCHANGED <<notifications, batchBy, res>>
  /\ UNCHANGED <<parserVars, appVars, schedulerVars, memberVars, taskVars>>

\* the sending settles: the reminder is counted and the round ends
Send(sending) ==
  /\ batchPc = "send"
  /\ batchPc' = "loop"
  /\ position' = position + 1
  /\ results' = Sent(results, sending)
  /\ counted' = CountedOnce(position + 1)
  /\ UNCHANGED <<notifications, batchBy, res>>
  /\ UNCHANGED <<parserVars, appVars, schedulerVars, memberVars, taskVars>>

\* the loop is left: the route responds with the results, the task logs
\* them
BatchCompletes ==
  /\ batchPc = "loop"
  /\ position = Len(notifications)
  /\ batchPc' = "done"
  /\ res' = IF batchBy = "route"
              THEN <<[route |-> "POST /send-batch-emails", status |-> 200]>>
              ELSE <<>>
  /\ UNCHANGED <<notifications, batchBy, position, results, counted>>
  /\ UNCHANGED <<parserVars, appVars, schedulerVars, memberVars, taskVars>>

InitBatch ==
  /\ ParserIdle
  /\ AppIdle
  /\ userDoc = NewUser
  /\ JobsIdle
  /\ MembersIdle
  /\ SyncTaskIdle
  /\ batchBy \in {"route", "task"}
  /\ \E n \in 0..MaxReminders : notifications \in Batches(batchBy, n)
  /\ batchPc = "idle"
  /\ position = 0
  /\ results = [sent |-> 0, failed |-> 0]
  /\ counted = [i \in 1..Len(notifications) |-> 0]

NextBatch ==
  \/ BatchBegins
  \/ \E lookup \in Lookups : LookUp(lookup)
  \/ \E sending \in Sendings : Send(sending)
  \/ BatchCompletes

SpecBatch == InitBatch /\ [][NextBatch]_vars


\* C23: for each job type at most one cron task is live, and every live
\* task is the one registered in jobs, under any interleaving of the start
\* and stop calls, two overlapping start calls included.
C23_OneLiveTaskPerType ==
  \A type \in {"notification", "sync"} :
    /\ Cardinality({t \in tasks : t.type = type}) <= 1
    /\ \A t \in tasks : t.type = type => jobs[type] = <<t>>

\* isEnabled, autoSend and emailEnabled all true in a saved config
AllEnabled(config) ==
  config.isEnabled /\ config.autoSend /\ config.emailEnabled

\* C24: when a POST /config request has completed successfully, a
\* notification job is registered exactly when the saved notificationConfig
\* has isEnabled, autoSend and emailEnabled all true.
C24_JobMatchesSavedConfig ==
  res = <<[route |-> "POST /api/notifications/config", status |-> 200]>>
    => (jobs["notification"] # <<>>
          <=> AllEnabled(userDoc.notificationConfig))

\* C28: a sync job is registered only while the stored settings have
\* autoSyncEnabled true and a csvUrl set.
C28_SyncJobOnlyWhileConfigured ==
  jobs["sync"] # <<>> => (userDoc.autoSyncEnabled /\ userDoc.csvUrl # <<>>)

\* call c of handleSyncSheet completes in this step with a parse result
\* that has no people
SyncWithNoPeople(c) ==
  /\ syncPc[c] = "members"
  /\ syncPc'[c] = "idle"
  /\ Len(sheetData[c][1].people) = 0

\* call c of handleSyncSheet completes in this step in its catch block
SyncFails(c) ==
  /\ syncPc[c] = "fetching"
  /\ syncPc'[c] = "idle"

\* C26: people and sheetMealRate come from the same parse result: a sync
\* whose parse yields no people, or that fails, changes neither of them.
C26_EmptySyncChangesNothing ==
  [][(\E c \in 1..MaxCalls : SyncWithNoPeople(c) \/ SyncFails(c))
       => (people' = people /\ sheetMealRate' = sheetMealRate)]_vars

\* the fields of a person other than the email
WithoutEmail(person) ==
  [id |-> person.id, name |-> person.name, meals |-> person.meals,
   contribution |-> person.contribution,
   customBalance |-> person.customBalance]

\* the extractedRate of a parse result and its people without their emails
RateAndPeople(parsed) ==
  [extractedRate |-> parsed.extractedRate,
   people |-> [k \in 1..Len(parsed.people) |->
                 WithoutEmail(parsed.people[k])]]

\* C25: for every CSV text the server's parseCSV and the frontend's return
\* the same extractedRate and the same people, the email aside.
C25_ServerParsesAsFrontend ==
  pc = "done" => RateAndPeople(serverParseCSV(csvText))
                   = RateAndPeople(result[1])

\* C27: no two members of the user have sheet names that are equal
\* ignoring case, after any requests, overlapping ones included.
C27_NamesUniqueIgnoringCase ==
  \A m1 \in members : \A m2 \in members :
    m1.id # m2.id => toLowerCase(m1.sheetName) # toLowerCase(m2.sheetName)

\* the three fields a sync stores
StoredSync(user) ==
  <<user.syncedPeople, user.sheetMealRate, user.lastFetchTime>>

\* run c ends in this step after a text whose parse has people, and the
\* user holds these people, the rate of the parse and the time of the save
SavesTogether(c) ==
  /\ syncRuns[c] # <<>>
  /\ syncRuns[c][1].pc = "text"
  /\ syncRuns'[c] = <<>>
  /\ LET parsed == serverParseCSV(syncRuns[c][1].text)
     IN  /\ Len(parsed.people) >= 1
         /\ userDoc'.syncedPeople = parsed.people
         /\ userDoc'.sheetMealRate = parsed.extractedRate
         /\ userDoc'.lastFetchTime = <<clock>>

\* C29: a run that cannot fetch or whose parse has no people leaves
\* syncedPeople, sheetMealRate and lastFetchTime as they were; the three
\* are updated together and only when the parse has at least one person.
C29_SyncTaskFrame ==
  [][StoredSync(userDoc') # StoredSync(userDoc)
       => \E c \in 1..MaxRuns : SavesTogether(c)]_vars

\* a user whose stored data a run has replaced, the rate with none
C29_Witness ==
  /\ userDoc.lastFetchTime = <<1>>
  /\ userDoc.syncedPeople # <<>>
  /\ userDoc.syncedPeople # <<StoredPerson>>
  /\ userDoc.sheetMealRate = <<>>
  /\ clock = 2

====
